---------------------------- MODULE Spec2Model ----------------------------
(***************************************************************************)
(* A model of the converters of src/documents:                             *)
(*   - GeoConverter (ascii2docx.ts, lines 353-724): the static engine      *)
(*     connection, init/close, convert, convertFile, getGeometryInfo,      *)
(*     the extension table and the command-line interface;                 *)
(*   - convertDocxToAsciidoc (docx2ascii.ts) and convertAsciidocToDocx     *)
(*     (ascii2docx.ts): the stage pipelines and their error wrapping.      *)
(*                                                                         *)
(* Strings the code inspects character by character (file extensions) are  *)
(* sequences of one-character strings.  An error message is a sequence of  *)
(* strings, so that `${prefix}${error.message}` is prefix prepended to the *)
(* cause's message.  A promise's result is a message: <<>> for a           *)
(* fulfilled promise, the error's message for a rejected one.              *)
(***************************************************************************)
EXTENDS Integers, Sequences, FiniteSets, TLC

VARIABLES
    db,        \* GeoConverter.db: id of the database object, 0 when undefined
    conn,      \* GeoConverter.conn: id of the connection object, 0 when undefined
    engine,    \* the embedded engine: per database id, what it holds
    fs,        \* the file system: per path, the file stored there
    call,      \* per caller, the call in progress and its continuation
    nCalls,    \* number of calls started so far
    overlap,   \* whether a call may start while another is in progress
    argv,      \* process.argv.slice(2) of the command-line process
    exitCode,  \* exit code of the command-line process, -1 while it runs
    extIn,     \* getFormatFromExtension: the argument
    extOut,    \* getFormatFromExtension: the result
    docCall,   \* the document converters: the call in progress
    docFs,     \* the document converters: the directories and files present
    nDocCalls, \* number of document conversions started so far
    mdIn,      \* the text rewriting: the Markdown given
    mdOptions, \* the text rewriting: the options given
    mdAsciidoc,\* the text rewriting: what postProcessAsciidoc is given
    mdResult,  \* the text rewriting: what postProcessAsciidoc returns
    mdPc       \* the text rewriting: what has been applied so far

geoVars == <<db, conn, engine, fs, call, nCalls, overlap, argv, exitCode>>
extVars == <<extIn, extOut>>
docVars == <<docCall, docFs, nDocCalls>>
textVars == <<mdIn, mdOptions, mdAsciidoc, mdResult, mdPc>>
vars == <<geoVars, extVars, docVars, textVars>>

----------------------------------------------------------------------------
(* Bounds of the model *)

\* databases one run may create (calls of init)
MaxDb == 2
\* calls one run may start
MaxCalls == 3
\* calls one run may start when calls may overlap
MaxOverlapCalls == 2
\* longest file extension drawn for getFormatFromExtension, dot included
MaxExtLen == 3
\* document conversions one run may start
MaxDocCalls == 2
\* the largest headingLevel option tried
MaxOffset == 5

----------------------------------------------------------------------------
(* Messages *)

Ok == <<>>

\* new Error(`${prefix}${error.message}`)
Wrapped(prefix, cause) == <<prefix>> \o cause

----------------------------------------------------------------------------
(* File extensions and formats *)

\* type GeoFormat
GeoFormat ==
    {"geojson", "shapefile", "kml", "gml", "topojson", "wkt", "csv", "geoparquet"}

LowerOf ==
    [A |-> "a", B |-> "b", C |-> "c", D |-> "d", E |-> "e", F |-> "f",
     G |-> "g", H |-> "h", I |-> "i", J |-> "j", K |-> "k", L |-> "l",
     M |-> "m", N |-> "n", O |-> "o", P |-> "p", Q |-> "q", R |-> "r",
     S |-> "s", T |-> "t", U |-> "u", V |-> "v", W |-> "w", X |-> "x",
     Y |-> "y", Z |-> "z"]

\* String.prototype.toLowerCase on a sequence of characters
toLowerCase(s) ==
    [i \in 1..Len(s) |-> IF s[i] \in DOMAIN LowerOf THEN LowerOf[s[i]] ELSE s[i]]

ExtJson == <<".", "j", "s", "o", "n">>
ExtGeojson == <<".", "g", "e", "o", "j", "s", "o", "n">>
ExtShp == <<".", "s", "h", "p">>
ExtKml == <<".", "k", "m", "l">>
ExtGml == <<".", "g", "m", "l">>
ExtTopojson == <<".", "t", "o", "p", "o", "j", "s", "o", "n">>
ExtWkt == <<".", "w", "k", "t">>
ExtCsv == <<".", "c", "s", "v">>
ExtParquet == <<".", "p", "a", "r", "q", "u", "e", "t">>
ExtGeoparquet == <<".", "g", "e", "o", "p", "a", "r", "q", "u", "e", "t">>

\* getFormatFromExtension comparing the extension as given, not lower-cased
getFormatFromExtensionCaseSensitive(ext) ==
    CASE ext = ExtJson \/ ext = ExtGeojson -> [format |-> "geojson", error |-> Ok]
      [] ext = ExtShp -> [format |-> "shapefile", error |-> Ok]
      [] ext = ExtKml -> [format |-> "kml", error |-> Ok]
      [] ext = ExtGml -> [format |-> "gml", error |-> Ok]
      [] ext = ExtTopojson -> [format |-> "topojson", error |-> Ok]
      [] ext = ExtWkt -> [format |-> "wkt", error |-> Ok]
      [] ext = ExtCsv -> [format |-> "csv", error |-> Ok]
      [] ext = ExtParquet \/ ext = ExtGeoparquet -> [format |-> "geoparquet", error |-> Ok]
      [] OTHER -> [format |-> "none", error |-> <<"Unsupported file extension: ">> \o ext]

\* GeoConverter.getFormatFromExtension: the format, or the error thrown
getFormatFromExtension(ext) ==
    LET e == toLowerCase(ext) IN
    CASE e = ExtJson \/ e = ExtGeojson -> [format |-> "geojson", error |-> Ok]
      [] e = ExtShp -> [format |-> "shapefile", error |-> Ok]
      [] e = ExtKml -> [format |-> "kml", error |-> Ok]
      [] e = ExtGml -> [format |-> "gml", error |-> Ok]
      [] e = ExtTopojson -> [format |-> "topojson", error |-> Ok]
      [] e = ExtWkt -> [format |-> "wkt", error |-> Ok]
      [] e = ExtCsv -> [format |-> "csv", error |-> Ok]
      [] e = ExtParquet \/ e = ExtGeoparquet -> [format |-> "geoparquet", error |-> Ok]
      [] OTHER -> [format |-> "none", error |-> <<"Unsupported file extension: ">> \o ext]

----------------------------------------------------------------------------
(* Paths and files *)

\* a path, already split the way path.dirname and path.extname split it
Path(dir, stem, ext) == [dir |-> dir, stem |-> stem, ext |-> ext]

\* path.extname
extname(p) == p.ext

NoPath == Path("", "", <<>>)
\* the test's two-feature GeoJSON file (Point and LineString)
FileA == Path(".", "a", ExtGeojson)
\* a WKT file of other features
FileB == Path(".", "b", ExtWkt)
\* a GeoJSON file whose only feature has "geometry": null
FileN == Path(".", "n", ExtGeojson)
\* paths where no file is
Missing == Path(".", "missing", ExtGeojson)
NonexistentXyz == Path(".", "nonexistent", <<".", "x", "y", "z">>)
OutWkt == Path(".", "out", ExtWkt)
OutCsv == Path(".", "out", ExtCsv)
OutputAbc == Path(".", "output", <<".", "a", "b", "c">>)
\* a path in a directory that does not exist
OutNoDir == Path("nodir", "out", ExtGeojson)

AllPaths ==
    {FileA, FileB, FileN, Missing, NonexistentXyz, OutWkt, OutCsv, OutputAbc, OutNoDir}

NoFile == [kind |-> "none", data |-> "none"]

\* the files present before any conversion
InitialFs ==
    [p \in AllPaths |->
        CASE p = FileA -> [kind |-> "geojson", data |-> "A"]
          [] p = FileB -> [kind |-> "wkt", data |-> "B"]
          [] p = FileN -> [kind |-> "geojson", data |-> "N"]
          [] OTHER -> NoFile]

\* the engine can create a file only in an existing directory
Writable(p) == p.dir = "."

----------------------------------------------------------------------------
(* The embedded engine: one record per database object *)

DbIds == 1..MaxDb

NoEngine ==
    [created |-> FALSE, open |-> FALSE, connOpen |-> FALSE, spatial |-> FALSE,
     geo |-> "none", wktRaw |-> FALSE, geoCsv |-> FALSE]

\* a statement runs only on an open connection of an open database
Usable(e) == e.open /\ e.connOpen

ClosedError == <<"Connection Error: connection closed">>
NoSpatialError == <<"Catalog Error: spatial function does not exist">>
ExistsError(t) == <<"Catalog Error: Table already exists: ", t>>
NoTableError == <<"Catalog Error: Table temp_geo_data does not exist">>
OpenError == <<"IO Error: cannot open file">>
FormatError == <<"IO Error: file is not of the given format">>
ConnectError == <<"cannot connect">>
InstallError == <<"IO Error: cannot install extension spatial">>
CloseError == <<"cannot close">>

\* the outcome of a statement: the engine after it, the files after it, the
\* promise's result
Outcome(e, f, r) == [e |-> e, fs |-> f, res |-> r]

\* DROP TABLE IF EXISTS temp_geo_data
ExecDrop(e, f) ==
    IF ~Usable(e) THEN Outcome(e, f, ClosedError)
    ELSE Outcome([e EXCEPT !.geo = "none"], f, Ok)

\* CREATE TABLE temp_geo_data AS SELECT * FROM ST_READ('<p>', ...)
ExecRead(e, f, p, format) ==
    CASE ~Usable(e) -> Outcome(e, f, ClosedError)
      [] Usable(e) /\ ~e.spatial -> Outcome(e, f, NoSpatialError)
      [] Usable(e) /\ e.spatial /\ e.geo # "none" ->
            Outcome(e, f, ExistsError("temp_geo_data"))
      [] Usable(e) /\ e.spatial /\ e.geo = "none" /\ f[p].kind = "none" ->
            Outcome(e, f, OpenError)
      [] Usable(e) /\ e.spatial /\ e.geo = "none" /\ f[p].kind \notin {"none", format} ->
            Outcome(e, f, FormatError)
      [] OTHER -> Outcome([e EXCEPT !.geo = f[p].data], f, Ok)

\* CREATE TABLE temp_wkt_raw(wkt_text VARCHAR); COPY temp_wkt_raw FROM '<p>';
\* CREATE TABLE temp_geo_data AS SELECT ST_GeomFromWKT(wkt_text) ...;
\* DROP TABLE temp_wkt_raw;   -- the statements run in order and the first
\* that fails ends the batch, what ran before it stays
ExecWktLoad(e, f, p) ==
    LET raw == [e EXCEPT !.wktRaw = TRUE] IN
    CASE ~Usable(e) -> Outcome(e, f, ClosedError)
      [] Usable(e) /\ e.wktRaw -> Outcome(e, f, ExistsError("temp_wkt_raw"))
      [] Usable(e) /\ ~e.wktRaw /\ f[p].kind = "none" -> Outcome(raw, f, OpenError)
      [] Usable(e) /\ ~e.wktRaw /\ f[p].kind # "none" /\ ~e.spatial ->
            Outcome(raw, f, NoSpatialError)
      [] Usable(e) /\ ~e.wktRaw /\ f[p].kind # "none" /\ e.spatial /\ e.geo # "none" ->
            Outcome(raw, f, ExistsError("temp_geo_data"))
      [] Usable(e) /\ ~e.wktRaw /\ f[p].kind \notin {"none", "wkt"} /\ e.spatial
            /\ e.geo = "none" -> Outcome(raw, f, FormatError)
      [] OTHER -> Outcome([e EXCEPT !.geo = f[p].data], f, Ok)

\* CALL ST_WRITE('SELECT * FROM temp_geo_data', '<p>', format=...), and
\* COPY (SELECT ST_AsText(geometry) AS wkt FROM temp_geo_data) TO '<p>'
ExecWrite(e, f, p, format) ==
    CASE ~Usable(e) -> Outcome(e, f, ClosedError)
      [] Usable(e) /\ ~e.spatial -> Outcome(e, f, NoSpatialError)
      [] Usable(e) /\ e.spatial /\ e.geo = "none" -> Outcome(e, f, NoTableError)
      [] Usable(e) /\ e.spatial /\ e.geo # "none" /\ ~Writable(p) ->
            Outcome(e, f, OpenError)
      [] OTHER -> Outcome(e, [f EXCEPT ![p] = [kind |-> format, data |-> e.geo]], Ok)

\* CREATE OR REPLACE TABLE temp_geo_csv AS SELECT ST_AsText(geometry) ...
\* FROM temp_geo_data; COPY temp_geo_csv TO '<p>' (HEADER, DELIMITER ',');
\* DROP TABLE temp_geo_csv;
ExecCsvExport(e, f, p) ==
    LET staged == [e EXCEPT !.geoCsv = TRUE] IN
    CASE ~Usable(e) -> Outcome(e, f, ClosedError)
      [] Usable(e) /\ e.geo = "none" -> Outcome(e, f, NoTableError)
      [] Usable(e) /\ e.geo # "none" /\ ~e.spatial -> Outcome(e, f, NoSpatialError)
      [] Usable(e) /\ e.geo # "none" /\ e.spatial /\ ~Writable(p) ->
            Outcome(staged, f, OpenError)
      [] OTHER ->
            Outcome([e EXCEPT !.geoCsv = FALSE],
                    [f EXCEPT ![p] = [kind |-> "csv", data |-> e.geo]], Ok)

----------------------------------------------------------------------------
(* Geometry held by the files, and the three aggregate queries *)

Row(t, x0, y0, x1, y1) == [gtype |-> t, box |-> <<x0, y0, x1, y1>>]

\* the rows of a data set; gtype "null" is a row whose geometry is NULL
Rows(d) ==
    CASE d = "A" -> {Row("POINT", 0, 0, 0, 0), Row("LINESTRING", 0, 0, 1, 1)}
      [] d = "B" -> {Row("POLYGON", 2, 3, 5, 7)}
      [] d = "N" -> {Row("null", 0, 0, 0, 0)}
      [] OTHER -> {}

NonNull(d) == {r \in Rows(d) : r.gtype # "null"}

SetMin(S) == CHOOSE m \in S : \A x \in S : m <= x
SetMax(S) == CHOOSE m \in S : \A x \in S : m >= x

\* MIN(...) and MAX(...) of SQL: NULL, here <<>>, over no rows
SqlMin(S) == IF S = {} THEN <<>> ELSE <<SetMin(S)>>
SqlMax(S) == IF S = {} THEN <<>> ELSE <<SetMax(S)>>

\* SELECT COUNT(*) as count FROM temp_geo_data
CountOf(d) == Cardinality(Rows(d))

\* SELECT DISTINCT ST_GeometryType(geometry) ... WHERE geometry IS NOT NULL
TypesOf(d) == {r.gtype : r \in NonNull(d)}

\* the bounds query without its WHERE geometry IS NOT NULL: a null geometry
\* counted with an envelope at the origin
BoundsOfAllRows(d) ==
    << SqlMin({r.box[1] : r \in Rows(d)}), SqlMin({r.box[2] : r \in Rows(d)}),
       SqlMax({r.box[3] : r \in Rows(d)}), SqlMax({r.box[4] : r \in Rows(d)}) >>

\* SELECT MIN(ST_XMin(ST_Envelope(geometry))), MIN(ST_YMin(...)),
\* MAX(ST_XMax(...)), MAX(ST_YMax(...)) ... WHERE geometry IS NOT NULL
BoundsOf(d) ==
    << SqlMin({r.box[1] : r \in NonNull(d)}), SqlMin({r.box[2] : r \in NonNull(d)}),
       SqlMax({r.box[3] : r \in NonNull(d)}), SqlMax({r.box[4] : r \in NonNull(d)}) >>

\* GeoConverter.query: a read-only query on the connection
ExecQuery(e, f, needsSpatial) ==
    CASE ~Usable(e) -> Outcome(e, f, ClosedError)
      [] Usable(e) /\ e.geo = "none" -> Outcome(e, f, NoTableError)
      [] Usable(e) /\ e.geo # "none" /\ needsSpatial /\ ~e.spatial ->
            Outcome(e, f, NoSpatialError)
      [] OTHER -> Outcome(e, f, Ok)

----------------------------------------------------------------------------
(* Calls of the GeoConverter API *)

Callers == {"A", "B"}
\* the caller that is the command-line process's main function
Main == "A"

NoInfo == [count |-> 0, types |-> {}, bounds |-> <<>>]

\* !outputFormat, if (outputFormat): an omitted or empty argument
Falsy(x) == x \in {"undefined", ""}

IdleCall ==
    [op |-> "idle", pc |-> "idle", phase |-> "none",
     inputPath |-> NoPath, outputPath |-> NoPath,
     inputFormat |-> "undefined", outputFormat |-> "undefined",
     argOutputFormat |-> "undefined",
     pend |-> Ok, settled |-> "no", error |-> Ok, info |-> NoInfo,
     initDb |-> 0, connAtEntry |-> 0, ranInit |-> FALSE, failedAt |-> "none",
     log |-> <<>>]

\* the program's state as one record, so that a handler is a function of it
Cur ==
    [db |-> db, conn |-> conn, engine |-> engine, fs |-> fs, call |-> call,
     exitCode |-> exitCode]

Becomes(s) ==
    /\ db' = s.db
    /\ conn' = s.conn
    /\ engine' = s.engine
    /\ fs' = s.fs
    /\ call' = s.call
    /\ exitCode' = s.exitCode

\* the promise of caller c's call settles with r
Finish(s, c, r) ==
    [s EXCEPT !.call[c] =
        [@ EXCEPT !.pc = "done", !.pend = Ok, !.error = r,
                  !.settled = IF r = Ok THEN "resolved" ELSE "rejected"]]

\* caller c hands a statement to this.conn and awaits it; out is its outcome
Issue(s, c, stmt, out, next) ==
    [s EXCEPT !.engine[s.conn] = out.e,
              !.fs = out.fs,
              !.call[c] =
                [@ EXCEPT !.pend = out.res, !.pc = next,
                          !.log = Append(@, [stmt |-> stmt, conn |-> s.conn,
                                             usable |-> Usable(s.engine[s.conn]),
                                             spatial |-> s.engine[s.conn].spatial])]]

Fail(s, c, stage) ==
    [s EXCEPT !.call[c].failedAt = IF @ = "none" THEN stage ELSE @]

\* the command-line process: the catch block is entered with error r
CliCaught(s, c, r) ==
    [s EXCEPT !.call[c] = [@ EXCEPT !.pc = "cli_catch", !.error = r, !.pend = Ok]]

\* convert (and with it convertFile) settles with r
ConvertDone(s, c, r) ==
    IF s.call[c].op = "cli"
    THEN IF r = Ok
         THEN [s EXCEPT !.call[c] = [@ EXCEPT !.pc = "cli_close", !.pend = Ok,
                                              !.phase = "converted"]]
         ELSE CliCaught(s, c, r)
    ELSE Finish(s, c, r)

\* convert: catch (error) { throw new Error(`Conversion failed: ...`) }
ConvertCatch(s, c, cause) ==
    ConvertDone(s, c, Wrapped("Conversion failed: ", cause))

\* getGeometryInfo: catch (error) { throw new Error(`Failed to get ...`) }
InfoCatch(s, c, cause) ==
    Finish(s, c, Wrapped("Failed to get geometry info: ", cause))

\* exportData writing the rows of the call's own input file, as it would with
\* a table of the call's own
exportDataOwnTable(s, c) ==
    LET p == s.call[c].outputPath
        format == s.call[c].outputFormat
        e == s.engine[s.conn]
        own == [e EXCEPT !.geo = IF @ = "none" THEN @ ELSE s.fs[s.call[c].inputPath].data]
        out == IF format = "csv" THEN ExecCsvExport(own, s.fs, p)
               ELSE ExecWrite(own, s.fs, p, format)
    IN  IF format \in GeoFormat
        THEN Issue(s, c, "export", [out EXCEPT !.e.geo = e.geo], "await_export")
        ELSE ConvertCatch(Fail(s, c, "export"), c, <<"Unsupported output format: ", format>>)

\* GeoConverter.exportData up to its await
exportData(s, c) ==
    LET p == s.call[c].outputPath
        format == s.call[c].outputFormat
        e == s.engine[s.conn]
        out == CASE format = "geojson" -> ExecWrite(e, s.fs, p, "geojson")
                 [] format = "shapefile" -> ExecWrite(e, s.fs, p, "shapefile")
                 [] format = "kml" -> ExecWrite(e, s.fs, p, "kml")
                 [] format = "gml" -> ExecWrite(e, s.fs, p, "gml")
                 [] format = "csv" -> ExecCsvExport(e, s.fs, p)
                 [] format = "geoparquet" -> ExecWrite(e, s.fs, p, "geoparquet")
                 [] format = "wkt" -> ExecWrite(e, s.fs, p, "wkt")
                 [] format = "topojson" -> ExecWrite(e, s.fs, p, "topojson")
    IN  IF format \in GeoFormat
        THEN Issue(s, c, "export", out, "await_export")
        ELSE ConvertCatch(Fail(s, c, "export"), c, <<"Unsupported output format: ", format>>)

\* the three queries of getGeometryInfo, each up to its await; the rows a query
\* returns are those of the table when it runs
queryCount(s, c) ==
    LET e == s.engine[s.conn]
        out == ExecQuery(e, s.fs, FALSE)
    IN  [Issue(s, c, "count", out, "await_count")
            EXCEPT !.call[c].info.count = IF out.res = Ok THEN CountOf(e.geo) ELSE @]

queryTypes(s, c) ==
    LET e == s.engine[s.conn]
        out == ExecQuery(e, s.fs, TRUE)
    IN  [Issue(s, c, "types", out, "await_types")
            EXCEPT !.call[c].info.types = IF out.res = Ok THEN TypesOf(e.geo) ELSE @]

queryBounds(s, c) ==
    LET e == s.engine[s.conn]
        out == ExecQuery(e, s.fs, TRUE)
    IN  [Issue(s, c, "bounds", out, "await_bounds")
            EXCEPT !.call[c].info.bounds = IF out.res = Ok THEN BoundsOf(e.geo) ELSE @]

\* loadData has settled with r: what its caller does next
LoadDone(s, c, r) ==
    IF s.call[c].op = "getGeometryInfo"
    THEN IF r = Ok
         THEN queryCount(s, c)
         ELSE InfoCatch(Fail(s, c, "load"), c, r)
    ELSE IF r = Ok THEN exportData(s, c) ELSE ConvertCatch(Fail(s, c, "load"), c, r)

\* loadData that leaves an existing temp_geo_data in place
loadDataNoDrop(s, c) ==
    Issue(s, c, "drop", Outcome(s.engine[s.conn], s.fs,
                                IF Usable(s.engine[s.conn]) THEN Ok ELSE ClosedError),
          "await_drop")

\* GeoConverter.loadData up to its first await: the DROP
loadData(s, c) ==
    Issue(s, c, "drop", ExecDrop(s.engine[s.conn], s.fs), "await_drop")

\* GeoConverter.loadData after the DROP: the switch on the format
loadDataSwitch(s, c) ==
    LET p == s.call[c].inputPath
        format == s.call[c].inputFormat
        e == s.engine[s.conn]
        out == CASE format = "geojson" -> ExecRead(e, s.fs, p, "geojson")
                 [] format = "shapefile" -> ExecRead(e, s.fs, p, "shapefile")
                 [] format = "kml" -> ExecRead(e, s.fs, p, "kml")
                 [] format = "gml" -> ExecRead(e, s.fs, p, "gml")
                 [] format = "csv" -> ExecRead(e, s.fs, p, "csv")
                 [] format = "geoparquet" -> ExecRead(e, s.fs, p, "geoparquet")
                 [] format = "wkt" -> ExecWktLoad(e, s.fs, p)
                 [] format = "topojson" -> ExecRead(e, s.fs, p, "topojson")
    IN  IF s.call[c].pend # Ok THEN LoadDone(s, c, s.call[c].pend)
        ELSE IF format \in GeoFormat
        THEN Issue(s, c, "create", out, "await_create")
        ELSE LoadDone(s, c, <<"Unsupported input format: ", format>>)

\* the least database id not yet used
FreshDb(s) == CHOOSE k \in DbIds : ~s.engine[k].created /\ \A j \in 1..(k - 1) : s.engine[j].created
CanInit(s) == \E k \in DbIds : ~s.engine[k].created

\* GeoConverter.init up to its first await: new duckdb.Database(':memory:')
\* and the call of this.db.connect
init(s, c) ==
    LET k == FreshDb(s) IN
    [s EXCEPT !.db = k,
              !.engine[k] = [NoEngine EXCEPT !.created = TRUE, !.open = TRUE],
              !.call[c] = [@ EXCEPT !.pc = "await_connect", !.initDb = k,
                                    !.ranInit = TRUE, !.pend = Ok]]

\* convert that initializes the engine on every call
convertAlwaysInit(s, c) ==
    IF CanInit(s) THEN init([s EXCEPT !.call[c].connAtEntry = s.conn], c)
    ELSE loadData([s EXCEPT !.call[c].connAtEntry = s.conn], c)

\* GeoConverter.convert and getGeometryInfo up to the first await:
\* if (!this.conn) { await this.init(); } try { await this.loadData(...)
convert(s, c) ==
    IF s.conn = 0
    THEN init([s EXCEPT !.call[c].connAtEntry = s.conn], c)
    ELSE loadData([s EXCEPT !.call[c].connAtEntry = s.conn], c)

\* convertFile falling back to geojson for an extension it does not know
convertFileFallback(s, c) ==
    LET fromIn == getFormatFromExtension(extname(s.call[c].inputPath))
        fromOut == IF Falsy(s.call[c].argOutputFormat)
                   THEN getFormatFromExtension(extname(s.call[c].outputPath))
                   ELSE [format |-> s.call[c].argOutputFormat, error |-> Ok]
    IN  convert([s EXCEPT !.call[c].inputFormat =
                              IF fromIn.error # Ok THEN "geojson" ELSE fromIn.format,
                          !.call[c].outputFormat =
                              IF fromOut.error # Ok THEN "geojson" ELSE fromOut.format], c)

\* GeoConverter.convertFile up to its await of convert
convertFile(s, c) ==
    LET fromIn == getFormatFromExtension(extname(s.call[c].inputPath))
        fromOut == IF Falsy(s.call[c].argOutputFormat)
                   THEN getFormatFromExtension(extname(s.call[c].outputPath))
                   ELSE [format |-> s.call[c].argOutputFormat, error |-> Ok]
    IN  IF fromIn.error # Ok
        THEN ConvertDone(Fail(s, c, "infer"), c, fromIn.error)
        ELSE IF fromOut.error # Ok
        THEN ConvertDone(Fail([s EXCEPT !.call[c].inputFormat = fromIn.format], c, "infer"),
                         c, fromOut.error)
        ELSE convert([s EXCEPT !.call[c].inputFormat = fromIn.format,
                               !.call[c].outputFormat = fromOut.format], c)

\* init has settled with r: what its caller does next
InitDone(s, c, r) ==
    CASE s.call[c].op = "init" -> Finish(s, c, r)
      [] s.call[c].op = "cli" ->
            IF r = Ok THEN convertFile(s, c) ELSE CliCaught(Fail(s, c, "init"), c, r)
      [] s.call[c].op = "getGeometryInfo" ->
            IF r = Ok THEN loadData(s, c) ELSE Finish(Fail(s, c, "init"), c, r)
      [] OTHER ->
            IF r = Ok THEN loadData(s, c) ELSE ConvertDone(Fail(s, c, "init"), c, r)


\* GeoConverter.getGeometryInfo up to the first await:
\* if (!this.conn) { await this.init(); } try { await this.loadData(...)
getGeometryInfo(s, c) ==
    IF s.conn = 0
    THEN init([s EXCEPT !.call[c].connAtEntry = s.conn], c)
    ELSE loadData([s EXCEPT !.call[c].connAtEntry = s.conn], c)

\* GeoConverter.init after getConnection has settled with rc:
\* this.conn = ...; await this.conn.exec('INSTALL spatial; LOAD spatial;'),
\* which will settle with ri
initConnected(s, c, rc, ri) ==
    LET k == s.call[c].initDb IN
    IF rc # Ok
    THEN InitDone(s, c, rc)
    ELSE LET s1 == [s EXCEPT !.conn = k, !.engine[k].connOpen = TRUE]
             e == s1.engine[k]
             out == IF ~Usable(e) THEN Outcome(e, s.fs, ClosedError)
                    ELSE IF ri = Ok THEN Outcome([e EXCEPT !.spatial = TRUE], s.fs, Ok)
                    ELSE Outcome(e, s.fs, ri)
         IN  Issue(s1, c, "install", out, "await_install")

\* the command-line process ends with this exit code
Exit(s, c, code) ==
    [s EXCEPT !.exitCode = code, !.call[c] = [@ EXCEPT !.pc = "exited", !.pend = Ok]]

\* close has settled with r: what its caller does next.  In the command-line
\* process: after the try block's close the process ends by itself (exit code
\* 0), a rejection there enters the catch block; after the catch block's
\* close comes process.exit(1), and a rejection there is an unhandled
\* rejection, which ends the process with exit code 1
CloseDone(s, c, r) ==
    CASE s.call[c].op = "cli" /\ s.call[c].phase = "try" ->
            IF r = Ok THEN Exit(s, c, 0) ELSE CliCaught(Fail(s, c, "close"), c, r)
      [] s.call[c].op = "cli" /\ s.call[c].phase # "try" -> Exit(s, c, 1)
      [] OTHER -> Finish(s, c, r)

\* GeoConverter.close, second half: if (this.db) { await this.db.close(); }
\* the close will settle with r; a closed in-memory database holds nothing
closeDb(s, c, r) ==
    IF s.db # 0
    THEN [s EXCEPT !.engine[s.db] =
                      IF r = Ok
                      THEN [@ EXCEPT !.open = FALSE, !.spatial = FALSE, !.geo = "none",
                                     !.wktRaw = FALSE, !.geoCsv = FALSE]
                      ELSE @,
                   !.call[c] = [@ EXCEPT !.pend = r, !.pc = "await_dbclose"]]
    ELSE CloseDone(s, c, Ok)

\* GeoConverter.close up to its first await:
\* if (this.conn) { await this.conn.close(); }
close(s, c, r) ==
    IF s.conn # 0
    THEN [s EXCEPT !.engine[s.conn].connOpen = IF r = Ok THEN FALSE ELSE @,
                   !.call[c] = [@ EXCEPT !.pend = r, !.pc = "await_connclose"]]
    ELSE closeDb(s, c, r)

----------------------------------------------------------------------------
(* The arguments the calls are made with *)

Args(in, out, inFormat, outFormat) ==
    [inputPath |-> in, outputPath |-> out, inputFormat |-> inFormat,
     outputFormat |-> outFormat]

\* convert(inputPath, outputPath, inputFormat, outputFormat)
ConvertArgs ==
    { Args(FileA, OutWkt, "geojson", "wkt"),
      Args(FileB, OutCsv, "wkt", "csv"),
      Args(Missing, OutWkt, "geojson", "wkt"),
      Args(Missing, OutCsv, "wkt", "csv"),
      Args(FileA, OutWkt, "xyz", "wkt"),
      Args(FileA, OutCsv, "geojson", "abc"),
      Args(FileA, OutNoDir, "geojson", "geojson"),
      Args(FileB, OutNoDir, "wkt", "csv") }

\* convertFile(inputFile, outputFile, outputFormat?)
ConvertFileArgs ==
    { Args(FileA, OutWkt, "undefined", "undefined"),
      Args(FileB, OutCsv, "undefined", ""),
      Args(NonexistentXyz, OutputAbc, "undefined", "undefined"),
      Args(FileA, OutputAbc, "undefined", "undefined"),
      Args(FileA, OutputAbc, "undefined", "wkt"),
      Args(NonexistentXyz, OutWkt, "undefined", "wkt") }

\* getGeometryInfo(filePath, format)
InfoArgs ==
    { Args(FileA, NoPath, "geojson", "undefined"),
      Args(FileB, NoPath, "wkt", "undefined"),
      Args(Missing, NoPath, "geojson", "undefined"),
      Args(FileA, NoPath, "xyz", "undefined") }

\* getGeometryInfo of the file without geometry, asked by callers that await
\* each call
NullInfoArgs == { Args(FileN, NoPath, "geojson", "undefined") }

\* process.argv.slice(2)
ArgvSet ==
    { <<>>, <<FileA>>, <<FileA, OutWkt>>, <<FileB, OutCsv>>, <<FileA, OutputAbc>>,
      <<NonexistentXyz, OutWkt>>, <<Missing, OutWkt>>, <<FileA, OutNoDir>>,
      <<FileA, OutputAbc, "wkt">>, <<FileA, OutCsv, "csv">>, <<FileA, OutWkt, "">>,
      <<FileA, OutWkt, "abc">>, <<FileA, OutWkt, "wkt", "extra">> }

NewCall(op, a) ==
    [IdleCall EXCEPT !.op = op, !.inputPath = a.inputPath, !.outputPath = a.outputPath,
                     !.inputFormat = a.inputFormat, !.outputFormat = a.outputFormat,
                     !.argOutputFormat = a.outputFormat]

----------------------------------------------------------------------------
(* Actions of the GeoConverter *)

Step(s) ==
    /\ Becomes(s)
    /\ UNCHANGED <<nCalls, overlap, argv, extVars, docVars, textVars>>

Start(s) ==
    /\ Becomes(s)
    /\ nCalls' = nCalls + 1
    /\ UNCHANGED <<overlap, argv, extVars, docVars, textVars>>

\* caller c may make a call now
MayCall(c) ==
    /\ call[c].op = "idle"
    /\ nCalls < (IF overlap THEN MaxOverlapCalls ELSE MaxCalls)
    /\ overlap \/ \A d \in Callers : call[d].op = "idle"

With(c, r) == [Cur EXCEPT !.call[c] = r]

CallInit(c) ==
    /\ MayCall(c)
    /\ CanInit(Cur)
    /\ Start(init(With(c, NewCall("init", Args(NoPath, NoPath, "undefined", "undefined"))), c))

CallClose(c) ==
    /\ MayCall(c)
    /\ \E r \in {Ok, CloseError} :
        Start(close(With(c, NewCall("close", Args(NoPath, NoPath, "undefined", "undefined"))), c, r))

CallConvert(c) ==
    /\ MayCall(c)
    /\ conn # 0 \/ CanInit(Cur)
    /\ \E a \in ConvertArgs : Start(convert(With(c, NewCall("convert", a)), c))

CallConvertFile(c) ==
    /\ MayCall(c)
    /\ conn # 0 \/ CanInit(Cur)
    /\ \E a \in ConvertFileArgs : Start(convertFile(With(c, NewCall("convertFile", a)), c))

CallGetGeometryInfo(c) ==
    /\ MayCall(c)
    /\ conn # 0 \/ CanInit(Cur)
    /\ \E a \in InfoArgs \cup (IF overlap THEN {} ELSE NullInfoArgs) :
        Start(getGeometryInfo(With(c, NewCall("getGeometryInfo", a)), c))

InitConnected(c) ==
    /\ call[c].pc = "await_connect"
    /\ \E rc \in {Ok, ConnectError}, ri \in {Ok, InstallError} :
        Step(initConnected(Cur, c, rc, ri))

InitInstalled(c) ==
    /\ call[c].pc = "await_install"
    /\ Step(InitDone(Cur, c, call[c].pend))

LoadDropped(c) ==
    /\ call[c].pc = "await_drop"
    /\ Step(loadDataSwitch(Cur, c))

LoadCreated(c) ==
    /\ call[c].pc = "await_create"
    /\ Step(LoadDone(Cur, c, call[c].pend))

Exported(c) ==
    /\ call[c].pc = "await_export"
    /\ Step(IF call[c].pend = Ok THEN ConvertDone(Cur, c, Ok)
            ELSE ConvertCatch(Fail(Cur, c, "export"), c, call[c].pend))

QueryCounted(c) ==
    /\ call[c].pc = "await_count"
    /\ Step(IF call[c].pend = Ok THEN queryTypes(Cur, c)
            ELSE InfoCatch(Fail(Cur, c, "query"), c, call[c].pend))

QueryTyped(c) ==
    /\ call[c].pc = "await_types"
    /\ Step(IF call[c].pend = Ok THEN queryBounds(Cur, c)
            ELSE InfoCatch(Fail(Cur, c, "query"), c, call[c].pend))

QueryBounded(c) ==
    /\ call[c].pc = "await_bounds"
    /\ Step(IF call[c].pend = Ok THEN Finish(Cur, c, Ok)
            ELSE InfoCatch(Fail(Cur, c, "query"), c, call[c].pend))

CloseConnSettled(c) ==
    /\ call[c].pc = "await_connclose"
    /\ \E r \in {Ok, CloseError} :
        Step(IF call[c].pend = Ok THEN closeDb(Cur, c, r) ELSE CloseDone(Cur, c, call[c].pend))

CloseDbSettled(c) ==
    /\ call[c].pc = "await_dbclose"
    /\ Step(CloseDone(Cur, c, call[c].pend))

\* the caller has the settled promise's result and may call again
Return(c) ==
    /\ call[c].pc = "done"
    /\ Step(With(c, IdleCall))

(* The command-line interface *)

\* the top of the command-line script: the argument count, then
\* await GeoConverter.init()
CliStart ==
    /\ call[Main].op = "idle"
    /\ exitCode = -1
    /\ nCalls = 0
    /\ LET n == Len(argv)
           a == Args(argv[1], argv[2], "undefined", IF n = 3 THEN argv[3] ELSE "undefined")
       IN  IF n < 2 \/ n > 3
           THEN Start(Exit(With(Main, [IdleCall EXCEPT !.op = "cli"]), Main, 1))
           ELSE Start(init(With(Main, NewCall("cli", a)), Main))

\* after the conversion: console.log(...); await GeoConverter.close()
CliClose ==
    /\ call[Main].pc = "cli_close"
    /\ \E r \in {Ok, CloseError} :
        Step(close([Cur EXCEPT !.call[Main].phase = "try"], Main, r))

\* catch (error) { console.error(...); await GeoConverter.close(); ...
CliCatch ==
    /\ call[Main].pc = "cli_catch"
    /\ \E r \in {Ok, CloseError} :
        Step(close([Cur EXCEPT !.call[Main].phase = "catch"], Main, r))

----------------------------------------------------------------------------
(* Text: a string is the sequence of its characters *)

\* the character ` (U+0060), which no string written here can hold
Backquote == "backquote"

\* the line terminators of a regular expression ('.' matches none of them)
LineTerminator == {"\n", "\r"}

\* the characters \s matches, of those that occur here
Space == {" ", "\t", "\n", "\r"}

Digit == {"0", "1", "2", "3", "4", "5", "6", "7", "8", "9"}

\* the characters \w matches
Word == DOMAIN LowerOf \cup {LowerOf[k] : k \in DOMAIN LowerOf} \cup Digit \cup {"_"}

\* ^ under the m flag: at the start of the text or after a line terminator
AtLineStart(t, i) == i = 1 \/ t[i - 1] \in LineTerminator

\* the text has pat at position i
StartsAt(t, i, pat) ==
    /\ i >= 1
    /\ i + Len(pat) - 1 <= Len(t)
    /\ SubSeq(t, i, i + Len(pat) - 1) = pat

\* the position after the longest run, from i, of characters of S
RunIn(t, i, S) ==
    CHOOSE j \in i..(Len(t) + 1) :
        /\ j = Len(t) + 1 \/ t[j] \notin S
        /\ \A k \in i..(j - 1) : t[k] \in S

\* the position after the longest run, from i, of characters not of S
RunNotIn(t, i, S) ==
    CHOOSE j \in i..(Len(t) + 1) :
        /\ j = Len(t) + 1 \/ t[j] \in S
        /\ \A k \in i..(j - 1) : t[k] \notin S

\* the first position from i on where pat stands, 0 when there is none
IndexOf(t, pat, i) ==
    LET J == {j \in i..Len(t) : StartsAt(t, j, pat)}
    IN  IF J = {} THEN 0 ELSE CHOOSE j \in J : \A k \in J : j <= k

\* as IndexOf, the text between i and the match holding no line terminator:
\* where (.*?)pat ends when it starts at i
IndexOnLine(t, pat, i) ==
    LET j == IndexOf(t, pat, i)
    IN  IF j # 0 /\ \A k \in i..(j - 1) : t[k] \notin LineTerminator THEN j ELSE 0

\* n copies of ch: ch.repeat(n)
repeat(ch, n) == [i \in 1..n |-> ch]

NoMatch == [len |-> 0, g1 |-> <<>>, g2 |-> <<>>]

\* \s+(.+)$ under the m flag, from position w on: the whitespace is as long
\* as it can be with one character of the line left for the group, and the
\* group runs to the end of the line.  cut is where the group starts, 0 when
\* there is no match
RestOfLine(t, w) ==
    LET wEnd == RunIn(t, w, Space)
        C == {c \in (w + 1)..wEnd : c <= Len(t) /\ t[c] \notin LineTerminator}
    IN  IF C = {}
        THEN [cut |-> 0, end |-> 0]
        ELSE LET c == CHOOSE x \in C : \A y \in C : y <= x
             IN  [cut |-> c, end |-> RunNotIn(t, c, LineTerminator)]

\* a match of prefix\s+(.+)$ at i, the prefix ending before position w
LineMatch(t, i, w) ==
    LET r == RestOfLine(t, w)
    IN  IF r.cut = 0
        THEN NoMatch
        ELSE [len |-> r.end - i, g1 |-> SubSeq(t, i, w - 1),
              g2 |-> SubSeq(t, r.cut, r.end - 1)]

----------------------------------------------------------------------------
(* markdownToAsciidoc, docx2ascii.ts: one operator per replace *)

\* #{1,6}: the most '#' characters a header starts with
MaxHashes == 6

\* /^(#{1,6})\s+(.+)$/gm at position i
headerMatch(t, i) ==
    LET w == RunIn(t, i, {"#"})
    IN  IF AtLineStart(t, i) /\ w - i \in 1..MaxHashes THEN LineMatch(t, i, w) ELSE NoMatch

\* the header replace that ignores options.headingLevel
headerReplacementNoOffset(m, headingLevel) == repeat("=", Len(m.g1)) \o <<" ">> \o m.g2

\* `${'='.repeat(level)} ${content}`, level = hashes.length + (options.headingLevel || 0)
headerReplacement(m, headingLevel) ==
    repeat("=", Len(m.g1) + headingLevel) \o <<" ">> \o m.g2

RECURSIVE convertHeadersFrom(_, _, _)
convertHeadersFrom(t, i, headingLevel) ==
    LET I == {x \in i..Len(t) : headerMatch(t, x).len > 0}
    IN  IF I = {}
        THEN SubSeq(t, i, Len(t))
        ELSE LET at == CHOOSE x \in I : \A y \in I : x <= y
                 m == headerMatch(t, at)
             IN  SubSeq(t, i, at - 1)
                     \o headerReplacement(m, headingLevel) \o
                     convertHeadersFrom(t, at + m.len, headingLevel)

\* asciidoc.replace(/^(#{1,6})\s+(.+)$/gm, ...)
convertHeaders(t, headingLevel) == convertHeadersFrom(t, 1, headingLevel)

\* /\*\*(.*?)\*\*/g at position i
boldMatch(t, i) ==
    LET j == IF StartsAt(t, i, <<"*", "*">>) THEN IndexOnLine(t, <<"*", "*">>, i + 2) ELSE 0
    IN  IF j = 0 THEN NoMatch
        ELSE [len |-> j + 2 - i, g1 |-> SubSeq(t, i + 2, j - 1), g2 |-> <<>>]

RECURSIVE convertBoldFrom(_, _)
convertBoldFrom(t, i) ==
    LET I == {x \in i..Len(t) : boldMatch(t, x).len > 0}
    IN  IF I = {}
        THEN SubSeq(t, i, Len(t))
        ELSE LET at == CHOOSE x \in I : \A y \in I : x <= y
                 m == boldMatch(t, at)
             IN  SubSeq(t, i, at - 1)
                     \o <<"*">> \o m.g1 \o <<"*">> \o
                     convertBoldFrom(t, at + m.len)

\* asciidoc.replace(/\*\*(.*?)\*\*/g, '*$1*')
convertBold(t) == convertBoldFrom(t, 1)

\* asciidoc.replace(/_(.*?)_/g, '_$1_'): every match is replaced by itself
convertItalic(t) == t

\* /```(\w+)\n([\s\S]*?)```/g at position i
codeLangMatch(t, i) ==
    LET w == RunIn(t, i + 3, Word)
        j == IF StartsAt(t, i, <<Backquote, Backquote, Backquote>>) /\ w > i + 3 /\ StartsAt(t,
            w, <<"\n">>)
             THEN IndexOf(t, <<Backquote, Backquote, Backquote>>, w + 1)
             ELSE 0
    IN  IF j = 0 THEN NoMatch
        ELSE [len |-> j + 3 - i, g1 |-> SubSeq(t, i + 3, w - 1),
              g2 |-> SubSeq(t, w + 1, j - 1)]

RECURSIVE convertCodeLangFrom(_, _)
convertCodeLangFrom(t, i) ==
    LET I == {x \in i..Len(t) : codeLangMatch(t, x).len > 0}
    IN  IF I = {}
        THEN SubSeq(t, i, Len(t))
        ELSE LET at == CHOOSE x \in I : \A y \in I : x <= y
                 m == codeLangMatch(t, at)
             IN  SubSeq(t, i, at - 1)
                     \o <<"[", "s", "o", "u", "r", "c", "e", ",">> \o m.g1 \o <<"]", "\n", "-", "-", "-", "-", "\n">> \o m.g2 \o <<"-", "-", "-", "-", "\n">> \o
                     convertCodeLangFrom(t, at + m.len)

\* asciidoc.replace(/```(\w+)\n([\s\S]*?)```/g, ...)
convertCodeLang(t) == convertCodeLangFrom(t, 1)

\* /```\n([\s\S]*?)```/g at position i
codeMatch(t, i) ==
    LET j == IF StartsAt(t, i, <<Backquote, Backquote, Backquote, "\n">>) THEN IndexOf(t,
        <<Backquote, Backquote, Backquote>>, i + 4) ELSE 0
    IN  IF j = 0 THEN NoMatch
        ELSE [len |-> j + 3 - i, g1 |-> SubSeq(t, i + 4, j - 1), g2 |-> <<>>]

RECURSIVE convertCodeFrom(_, _)
convertCodeFrom(t, i) ==
    LET I == {x \in i..Len(t) : codeMatch(t, x).len > 0}
    IN  IF I = {}
        THEN SubSeq(t, i, Len(t))
        ELSE LET at == CHOOSE x \in I : \A y \in I : x <= y
                 m == codeMatch(t, at)
             IN  SubSeq(t, i, at - 1)
                     \o <<"-", "-", "-", "-", "\n">> \o m.g1 \o <<"-", "-", "-", "-", "\n">> \o
                     convertCodeFrom(t, at + m.len)

\* asciidoc.replace(/```\n([\s\S]*?)```/g, '----\n$1----\n')
convertCode(t) == convertCodeFrom(t, 1)

\* asciidoc.replace(/`([^`]+)`/g, '`$1`'): every match is replaced by itself
convertInlineCode(t) == t

\* /^>\s+(.+)$/gm at position i
quoteMatch(t, i) ==
    IF AtLineStart(t, i) /\ StartsAt(t, i, <<">">>) THEN LineMatch(t, i, i + 1) ELSE NoMatch

RECURSIVE convertQuotesFrom(_, _)
convertQuotesFrom(t, i) ==
    LET I == {x \in i..Len(t) : quoteMatch(t, x).len > 0}
    IN  IF I = {}
        THEN SubSeq(t, i, Len(t))
        ELSE LET at == CHOOSE x \in I : \A y \in I : x <= y
                 m == quoteMatch(t, at)
             IN  SubSeq(t, i, at - 1)
                     \o <<"[", "q", "u", "o", "t", "e", "]", "\n", "_", "_", "_", "_", "\n">> \o m.g2 \o <<"\n", "_", "_", "_", "_", "\n">> \o
                     convertQuotesFrom(t, at + m.len)

\* asciidoc.replace(/^>\s+(.+)$/gm, '[quote]\n____\n$1\n____\n')
convertQuotes(t) == convertQuotesFrom(t, 1)

\* /\[(.*?)\]\((.*?)\)/g at position i
linkMatch(t, i) ==
    LET j == IF StartsAt(t, i, <<"[">>) THEN IndexOnLine(t, <<"]", "(">>, i + 1) ELSE 0
        k == IF j = 0 THEN 0 ELSE IndexOnLine(t, <<")">>, j + 2)
    IN  IF k = 0 THEN NoMatch
        ELSE [len |-> k + 1 - i, g1 |-> SubSeq(t, i + 1, j - 1),
              g2 |-> SubSeq(t, j + 2, k - 1)]

RECURSIVE convertLinksFrom(_, _)
convertLinksFrom(t, i) ==
    LET I == {x \in i..Len(t) : linkMatch(t, x).len > 0}
    IN  IF I = {}
        THEN SubSeq(t, i, Len(t))
        ELSE LET at == CHOOSE x \in I : \A y \in I : x <= y
                 m == linkMatch(t, at)
             IN  SubSeq(t, i, at - 1)
                     \o <<"l", "i", "n", "k", ":">> \o m.g2 \o <<"[">> \o m.g1 \o <<"]">> \o
                     convertLinksFrom(t, at + m.len)

\* asciidoc.replace(/\[(.*?)\]\((.*?)\)/g, 'link:$2[$1]')
convertLinks(t) == convertLinksFrom(t, 1)

\* /^\d+\.\s+(.+)$/gm at position i
orderedMatch(t, i) ==
    LET w == RunIn(t, i, Digit)
    IN  IF AtLineStart(t, i) /\ w > i /\ StartsAt(t, w, <<".">>)
        THEN LineMatch(t, i, w + 1)
        ELSE NoMatch

RECURSIVE convertOrderedFrom(_, _)
convertOrderedFrom(t, i) ==
    LET I == {x \in i..Len(t) : orderedMatch(t, x).len > 0}
    IN  IF I = {}
        THEN SubSeq(t, i, Len(t))
        ELSE LET at == CHOOSE x \in I : \A y \in I : x <= y
                 m == orderedMatch(t, at)
             IN  SubSeq(t, i, at - 1)
                     \o <<".", " ">> \o m.g2 \o
                     convertOrderedFrom(t, at + m.len)

\* asciidoc.replace(/^\d+\.\s+(.+)$/gm, '. $1')
convertOrdered(t) == convertOrderedFrom(t, 1)

\* the options of a conversion; an absent headingLevel is 0 (headingLevel || 0),
\* absent attributes are the empty list, an absent flag is FALSE
Options(headingLevel, includeAttributes, attributes, includeToc, preserveLineBreaks) ==
    [headingLevel |-> headingLevel, includeAttributes |-> includeAttributes,
     attributes |-> attributes, includeToc |-> includeToc,
     preserveLineBreaks |-> preserveLineBreaks]

\* options = {}
NoOptions == Options(0, FALSE, <<>>, FALSE, FALSE)

\* markdownToAsciidoc(markdown, options)
markdownToAsciidoc(markdown, options) ==
    convertOrdered(convertLinks(convertQuotes(convertInlineCode(convertCode(
        convertCodeLang(convertItalic(convertBold(
            convertHeaders(markdown, options.headingLevel)))))))))

----------------------------------------------------------------------------
(* postProcessAsciidoc, docx2ascii.ts *)

DefaultTitle == <<"=", " ", "D", "o", "c", "u", "m", "e", "n", "t", " ", "T", "i", "t", "l", "e",
    "\n", "\n">>

\* result.startsWith('=')
startsWith(t, pat) == StartsAt(t, 1, pat)

\* the title injected whatever the document starts with
addTitleAlways(t) == DefaultTitle \o t

\* if (!result.startsWith('=')) result = `= Document Title\n\n${result}`
addTitle(t) == IF ~startsWith(t, <<"=">>) THEN DefaultTitle \o t ELSE t

\* `:${key}: ${value}\n` for each entry of options.attributes, in order
RECURSIVE customAttributes(_)
customAttributes(attributes) ==
    IF attributes = <<>>
    THEN <<>>
    ELSE <<":">> \o Head(attributes)[1] \o <<":", " ">> \o Head(attributes)[2] \o <<"\n">>
             \o customAttributes(Tail(attributes))

\* the attributes block built when options.includeAttributes
attributesBlock(options) ==
    <<"A", "u", "t", "h", "o", "r", " ", "N", "a", "m", "e", " ", "<", "a", "u", "t", "h", "o",
        "r", "@", "e", "x", "a", "m", "p", "l", "e", ".", "c", "o", "m", ">", "\n">>
        \o <<":", "t", "o", "c", ":", " ", "l", "e", "f", "t", "\n">>
        \o <<":", "i", "c", "o", "n", "s", ":", " ", "f", "o", "n", "t", "\n">>
        \o <<":", "s", "o", "u", "r", "c", "e", "-", "h", "i", "g", "h", "l", "i", "g", "h", "t",
            "e", "r", ":", " ", "h", "i", "g", "h", "l", "i", "g", "h", "t", ".", "j", "s",
            "\n">>
        \o customAttributes(options.attributes)
        \o (IF options.includeToc THEN <<":", "t", "o", "c", ":", "\n">> \o <<":", "t", "o", "c",
            "l", "e", "v", "e", "l", "s", ":", " ", "3", "\n">> ELSE <<>>)

\* a replacement string with its $ patterns filled in, from position k on;
\* x holds the match, its one group, and the text before and after the match
RECURSIVE expandFrom(_, _, _)
expandFrom(r, k, x) ==
    LET I == {j \in k..Len(r) - 1 : r[j] = "$"}
    IN  IF I = {}
        THEN SubSeq(r, k, Len(r))
        ELSE LET at == CHOOSE j \in I : \A y \in I : j <= y
                 c == r[at + 1]
             IN  SubSeq(r, k, at - 1) \o
                 CASE c = "$" -> <<"$">> \o expandFrom(r, at + 2, x)
                   [] c = "&" -> x.match \o expandFrom(r, at + 2, x)
                   [] c = Backquote -> x.before \o expandFrom(r, at + 2, x)
                   [] c = "'" -> x.after \o expandFrom(r, at + 2, x)
                   [] c = "1" -> x.g1 \o expandFrom(r, at + 2, x)
                   [] c = "0" /\ at + 2 <= Len(r) /\ r[at + 2] = "1" ->
                         x.g1 \o expandFrom(r, at + 3, x)
                   [] OTHER -> <<"$">> \o expandFrom(r, at + 1, x)

\* /^(=+\s+.+)$/m at position i
titleMatch(t, i) ==
    LET w == RunIn(t, i, {"="})
    IN  IF AtLineStart(t, i) /\ w > i THEN LineMatch(t, i, w) ELSE NoMatch

\* result.replace(/^(=+\s+.+)$/m, `$1\n${attributes}`): the first match only
insertAttributes(t, attributes) ==
    LET I == {i \in 1..Len(t) : titleMatch(t, i).len > 0}
    IN  IF I = {}
        THEN t
        ELSE LET i == CHOOSE x \in I : \A y \in I : x <= y
                 e == i + titleMatch(t, i).len
                 x == [match |-> SubSeq(t, i, e - 1), g1 |-> SubSeq(t, i, e - 1),
                       before |-> SubSeq(t, 1, i - 1), after |-> SubSeq(t, e, Len(t))]
             IN  SubSeq(t, 1, i - 1) \o expandFrom(<<"$", "1", "\n">> \o attributes, 1, x)
                     \o SubSeq(t, e, Len(t))

\* if (options.includeAttributes) { ... }
addAttributes(t, options) ==
    IF options.includeAttributes THEN insertAttributes(t, attributesBlock(options)) ELSE t

\* /([^=\-*.\n])\n([^=\-*.\n\s])/g at position i
joinMatch(t, i) ==
    /\ i + 2 <= Len(t)
    /\ t[i] \notin {"=", "-", "*", ".", "\n"}
    /\ t[i + 1] = "\n"
    /\ t[i + 2] \notin {"=", "-", "*", ".", "\n"} \cup Space

RECURSIVE joinLinesFrom(_, _)
joinLinesFrom(t, i) ==
    LET I == {x \in i..Len(t) : joinMatch(t, x)}
    IN  IF I = {}
        THEN SubSeq(t, i, Len(t))
        ELSE LET at == CHOOSE x \in I : \A y \in I : x <= y
             IN  SubSeq(t, i, at - 1) \o <<t[at], " ", t[at + 2]>>
                     \o joinLinesFrom(t, at + 3)

\* the line breaks cleaned up whatever options.preserveLineBreaks is
cleanLineBreaksAlways(t, options) == joinLinesFrom(t, 1)

\* if (!options.preserveLineBreaks) result = result.replace(..., '$1 $2')
cleanLineBreaks(t, options) ==
    IF ~options.preserveLineBreaks THEN joinLinesFrom(t, 1) ELSE t

\* result.replace(/\|\n\|/g, '|\n|'): every match is replaced by itself
fixTables(t) == t

\* postProcessAsciidoc(asciidoc, options)
postProcessAsciidoc(asciidoc, options) ==
    fixTables(cleanLineBreaks(addAttributes(addTitle(asciidoc), options), options))

----------------------------------------------------------------------------
(* The document converters: what they work on *)

\* a path is <<directory, base name>>; '' and undefined are the empty path
DocPath(dir, base) == <<dir, base>>
NoDocPath == <<>>

\* path.dirname(p)
dirname(p) == p[1]

\* a content is a sequence of strings, <<>> where no file is stored
NoContent == <<>>

TestDocx == DocPath("/test/input", "test.docx")
NonexistentDocx == DocPath("/", "nonexistent.docx")
TestAdoc == DocPath("/test/output", "test.adoc")
NewDirAdoc == DocPath("/test/new", "test.adoc")
TemplateDocx == DocPath("/test/templates", "template.docx")
MissingTemplate == DocPath("/test/templates", "missing.docx")
OutputDocx == DocPath("/test/output", "test-output.docx")
NewDirDocx == DocPath("/test/new", "test-output.docx")

DocPaths ==
    {TestDocx, NonexistentDocx, TestAdoc, NewDirAdoc, TemplateDocx,
     MissingTemplate, OutputDocx, NewDirDocx}

\* the directories and files present before the first conversion
InitialDocFs ==
    [dirs  |-> {"/", "/test/input", "/test/output", "/test/templates"},
     files |-> [p \in DocPaths |->
                   CASE p = TestDocx -> <<"test docx">>
                     [] p = TemplateDocx -> <<"template content">>
                     [] OTHER -> NoContent]]

\* fs.existsSync(p) for a file path and for a directory
fileExists(f, p) == f.files[p] # NoContent
dirExists(f, dir) == dir \in f.dirs

\* what the libraries return: the input under the library's mark
mammothHtml(docx) == <<"html of">> \o docx
turndownMarkdown(html) == <<"markdown of">> \o html
asciidoctorHtml(asciidoc) == <<"standalone html of">> \o asciidoc
HTMLtoDOCX(html, templateBuffer) == <<"docx of">> \o html \o <<"on template">> \o templateBuffer

\* what the stages throw
ParseError == <<"Could not find the body element: are you sure this is a docx file?">>
TurndownError == <<"input is not a string">>
RenderError == <<"asciidoctor: cannot convert">>
ReadError == <<"EACCES: permission denied, open">>
GenerateError == <<"Conversion failed">>
MkdirError == <<"EACCES: permission denied, mkdir">>
WriteError == <<"ENOSPC: no space left on device, write">>
NotFoundError(p) == <<"Input DOCX file not found: ">> \o p

DocxPrefix == "Failed to convert DOCX to AsciiDoc: "
AdocPrefix == "Failed to convert AsciiDoc to DOCX: "

\* no conversion in progress
IdleDoc ==
    [op              |-> "idle",
     pc              |-> "idle",
     docxPath        |-> NoDocPath,
     asciidocContent |-> NoContent,
     outputPath      |-> NoDocPath,
     templatePath    |-> NoDocPath,
     value           |-> NoContent,    \* html, markdown, asciidoc, docxBuffer in turn
     templateBuffer  |-> NoContent,
     settled         |-> "none",
     result          |-> <<>>,
     error           |-> Ok,
     cause           |-> Ok,           \* what the failing stage threw
     failedAt        |-> "none",
     invoked         |-> <<>>]         \* the library and file-system calls made, in order

CurDoc == [call |-> docCall, fs |-> docFs]

Invoke(d, name) == [d EXCEPT !.call.invoked = Append(@, name)]

Thrown(d, stage, cause) ==
    [d EXCEPT !.call.cause = cause, !.call.failedAt = stage]

Rejected(d, message) ==
    [d EXCEPT !.call.pc = "done", !.call.settled = "rejected", !.call.error = message]

Resolved(d, value) ==
    [d EXCEPT !.call.pc = "done", !.call.settled = "fulfilled", !.call.result = value]
----------------------------------------------------------------------------
(* convertDocxToAsciidoc, docx2ascii.ts *)

\* catch (error) { throw error }: the cause rethrown as it is
docxCatchRethrow(d) == Rejected(d, d.call.cause)

\* catch (error) { throw new Error(`Failed to convert DOCX to AsciiDoc: ...`) }
docxCatch(d) == Rejected(d, Wrapped(DocxPrefix, d.call.cause))

\* the parser called whether or not the input file exists
docxValidateNothing(d) == [Invoke(d, "mammoth.convertToHtml") EXCEPT !.call.pc = "mammoth"]

\* if (!fs.existsSync(docxPath)) throw ...; await mammoth.convertToHtml(...)
docxValidate(d) ==
    LET s1 == Invoke(d, "existsSync")
    IN  IF ~fileExists(s1.fs, s1.call.docxPath)
        THEN docxCatch(Thrown(s1, "validate", NotFoundError(s1.call.docxPath)))
        ELSE [Invoke(s1, "mammoth.convertToHtml") EXCEPT !.call.pc = "mammoth"]

\* the call, up to its first await
convertDocxToAsciidoc(d, docxPath, outputPath) ==
    docxValidate([d EXCEPT !.call = [IdleDoc EXCEPT !.op = "convertDocxToAsciidoc",
                                                    !.docxPath = docxPath,
                                                    !.outputPath = outputPath]])

\* mammoth.convertToHtml settles with r
docxParsed(d, r) ==
    IF r # Ok
    THEN docxCatch(Thrown(d, "parse", r))
    ELSE [d EXCEPT !.call.pc = "turndown",
                   !.call.value = mammothHtml(d.fs.files[d.call.docxPath])]

\* new turndown(...); addRule; turndownService.turndown(html)
docxMarkdown(d, r) ==
    LET s1 == Invoke(d, "turndown")
    IN  IF r # Ok
        THEN docxCatch(Thrown(s1, "markdown", r))
        ELSE [s1 EXCEPT !.call.pc = "markdownToAsciidoc",
                        !.call.value = turndownMarkdown(@)]

\* await markdownToAsciidoc(...); postProcessAsciidoc(...); if (outputPath)
docxRewritten(d) ==
    LET s1 == [d EXCEPT !.call.value =
                      postProcessAsciidoc(markdownToAsciidoc(@, NoOptions), NoOptions)]
    IN  IF s1.call.outputPath # NoDocPath
        THEN [s1 EXCEPT !.call.pc = "mkdir"]
        ELSE Resolved(s1, s1.call.value)

\* if (!fs.existsSync(outputDir)) fs.mkdirSync(outputDir, { recursive: true })
docxEnsureDir(d, r) ==
    LET dir == dirname(d.call.outputPath)
        s1 == Invoke(d, "existsSync")
    IN  IF dirExists(s1.fs, dir)
        THEN [s1 EXCEPT !.call.pc = "write"]
        ELSE IF r # Ok
             THEN docxCatch(Thrown(Invoke(s1, "mkdirSync"), "mkdir", r))
             ELSE [Invoke(s1, "mkdirSync") EXCEPT !.call.pc = "write",
                                                  !.fs.dirs = @ \cup {dir}]

\* the last stage returning the text without storing it
docxWriteNothing(d, r) ==
    LET s1 == Invoke(d, "writeFileSync")
    IN  IF r # Ok
        THEN docxCatch(Thrown(s1, "write", r))
        ELSE Resolved(s1, s1.call.value)

\* fs.writeFileSync(outputPath, asciidoc, 'utf8'); return asciidoc
docxWrite(d, r) ==
    LET s1 == Invoke(d, "writeFileSync")
    IN  IF r # Ok
        THEN docxCatch(Thrown(s1, "write", r))
        ELSE Resolved([s1 EXCEPT !.fs.files[s1.call.outputPath] = s1.call.value],
                      s1.call.value)

----------------------------------------------------------------------------
(* convertAsciidocToDocx, ascii2docx.ts *)

\* catch (error) { throw new Error(`Failed to convert AsciiDoc to DOCX: ...`) }
adocCatch(d) == Rejected(d, Wrapped(AdocPrefix, d.call.cause))

\* the call, up to the rendering: asciidoctor.convert(asciidocContent, ...) gives r
convertAsciidocToDocx(d, asciidocContent, outputPath, templatePath, r) ==
    LET s0 == [d EXCEPT !.call = [IdleDoc EXCEPT !.op = "convertAsciidocToDocx",
                                                 !.asciidocContent = asciidocContent,
                                                 !.outputPath = outputPath,
                                                 !.templatePath = templatePath]]
        s1 == Invoke(s0, "asciidoctor.convert")
    IN  IF r # Ok
        THEN adocCatch(Thrown(s1, "render", r))
        ELSE [s1 EXCEPT !.call.pc = "template",
                        !.call.value = asciidoctorHtml(asciidocContent)]

\* the document generation is started: await HTMLtoDOCX(html, templateBuffer, config)
adocGenerate(d) == [Invoke(d, "HTMLtoDOCX") EXCEPT !.call.pc = "HTMLtoDOCX"]

\* if (options.templatePath && fs.existsSync(...)) templateBuffer = fs.readFileSync(...)
adocTemplate(d, r) ==
    IF d.call.templatePath = NoDocPath
    THEN adocGenerate(d)
    ELSE LET s1 == Invoke(d, "existsSync")
         IN  IF ~fileExists(s1.fs, s1.call.templatePath)
             THEN adocGenerate(s1)
             ELSE IF r # Ok
                  THEN adocCatch(Thrown(Invoke(s1, "readFileSync"), "template", r))
                  ELSE adocGenerate(
                           [Invoke(s1, "readFileSync") EXCEPT
                               !.call.templateBuffer = s1.fs.files[s1.call.templatePath]])

\* HTMLtoDOCX settles with r
adocGenerated(d, r) ==
    IF r # Ok
    THEN adocCatch(Thrown(d, "generate", r))
    ELSE [d EXCEPT !.call.pc = "mkdir",
                   !.call.value = HTMLtoDOCX(@, d.call.templateBuffer)]

\* convertAsciidocToDocx going on to the write without creating the directory
adocEnsureDirNever(d, r) == [Invoke(d, "existsSync") EXCEPT !.call.pc = "write"]

\* if (!fs.existsSync(outputDir)) fs.mkdirSync(outputDir, { recursive: true })
adocEnsureDir(d, r) ==
    LET dir == dirname(d.call.outputPath)
        s1 == Invoke(d, "existsSync")
    IN  IF dirExists(s1.fs, dir)
        THEN [s1 EXCEPT !.call.pc = "write"]
        ELSE IF r # Ok
             THEN adocCatch(Thrown(Invoke(s1, "mkdirSync"), "mkdir", r))
             ELSE [Invoke(s1, "mkdirSync") EXCEPT !.call.pc = "write",
                                                  !.fs.dirs = @ \cup {dir}]

\* fs.writeFileSync(outputPath, docxBuffer); return outputPath
adocWrite(d, r) ==
    LET s1 == Invoke(d, "writeFileSync")
    IN  IF r # Ok
        THEN adocCatch(Thrown(s1, "write", r))
        ELSE Resolved([s1 EXCEPT !.fs.files[s1.call.outputPath] = s1.call.value],
                      s1.call.outputPath)
----------------------------------------------------------------------------
(* The document converters: actions *)

DocStep(d) ==
    /\ docCall' = d.call
    /\ docFs' = d.fs
    /\ UNCHANGED <<geoVars, extVars, nDocCalls, textVars>>

DocStart(d) ==
    /\ docCall' = d.call
    /\ docFs' = d.fs
    /\ nDocCalls' = nDocCalls + 1
    /\ UNCHANGED <<geoVars, extVars, textVars>>

\* a caller that awaits each conversion before the next one
MayConvert ==
    /\ docCall.pc \in {"idle", "done"}
    /\ nDocCalls < MaxDocCalls

AsciidocContents == {<<"= Test Document", "", "This is a test.">>}

CallConvertDocxToAsciidoc ==
    /\ MayConvert
    /\ \E docxPath \in {TestDocx, NonexistentDocx} :
       \E outputPath \in {NoDocPath, TestAdoc, NewDirAdoc} :
           DocStart(convertDocxToAsciidoc(CurDoc, docxPath, outputPath))

DocxParsed ==
    /\ docCall.op = "convertDocxToAsciidoc"
    /\ docCall.pc = "mammoth"
    /\ \E r \in {Ok, ParseError} : DocStep(docxParsed(CurDoc, r))

DocxMarkdown ==
    /\ docCall.op = "convertDocxToAsciidoc"
    /\ docCall.pc = "turndown"
    /\ \E r \in {Ok, TurndownError} : DocStep(docxMarkdown(CurDoc, r))

DocxRewritten ==
    /\ docCall.op = "convertDocxToAsciidoc"
    /\ docCall.pc = "markdownToAsciidoc"
    /\ DocStep(docxRewritten(CurDoc))

DocxEnsureDir ==
    /\ docCall.op = "convertDocxToAsciidoc"
    /\ docCall.pc = "mkdir"
    /\ \E r \in {Ok, MkdirError} : DocStep(docxEnsureDir(CurDoc, r))

DocxWrite ==
    /\ docCall.op = "convertDocxToAsciidoc"
    /\ docCall.pc = "write"
    /\ \E r \in {Ok, WriteError} : DocStep(docxWrite(CurDoc, r))

CallConvertAsciidocToDocx ==
    /\ MayConvert
    /\ \E asciidocContent \in AsciidocContents :
       \E outputPath \in {OutputDocx, NewDirDocx} :
       \E templatePath \in {NoDocPath, TemplateDocx, MissingTemplate} :
       \E r \in {Ok, RenderError} :
           DocStart(convertAsciidocToDocx(CurDoc, asciidocContent, outputPath,
                                          templatePath, r))

AdocTemplate ==
    /\ docCall.op = "convertAsciidocToDocx"
    /\ docCall.pc = "template"
    /\ \E r \in {Ok, ReadError} : DocStep(adocTemplate(CurDoc, r))

AdocGenerated ==
    /\ docCall.op = "convertAsciidocToDocx"
    /\ docCall.pc = "HTMLtoDOCX"
    /\ \E r \in {Ok, GenerateError} : DocStep(adocGenerated(CurDoc, r))

AdocEnsureDir ==
    /\ docCall.op = "convertAsciidocToDocx"
    /\ docCall.pc = "mkdir"
    /\ \E r \in {Ok, MkdirError} : DocStep(adocEnsureDir(CurDoc, r))

AdocWrite ==
    /\ docCall.op = "convertAsciidocToDocx"
    /\ docCall.pc = "write"
    /\ \E r \in {Ok, WriteError} : DocStep(adocWrite(CurDoc, r))

----------------------------------------------------------------------------
(* Specifications *)

NoExt == [format |-> "none", error |-> Ok]

\* the other programs of the repository, not running
ExtIdle == extIn = <<>> /\ extOut = NoExt
TextIdle ==
    /\ mdIn = <<>>
    /\ mdOptions = NoOptions
    /\ mdAsciidoc = <<>>
    /\ mdResult = <<>>
    /\ mdPc = "idle"
DocIdle == docCall = IdleDoc /\ docFs = InitialDocFs /\ nDocCalls = 0 /\ TextIdle

\* the GeoConverter after the class is loaded: no database, no connection
GeoIdle ==
    /\ db = 0
    /\ conn = 0
    /\ engine = [k \in DbIds |-> NoEngine]
    /\ fs = InitialFs
    /\ call = [c \in Callers |-> IdleCall]
    /\ nCalls = 0
    /\ exitCode = -1

InitGeo ==
    /\ GeoIdle
    /\ argv = <<>>
    /\ ExtIdle
    /\ DocIdle

\* callers that await each call before the next one
Init == InitGeo /\ overlap = FALSE

\* callers whose convert and getGeometryInfo calls overlap
InitOverlap == InitGeo /\ overlap = TRUE

Next ==
    \E c \in Callers :
        \/ CallInit(c)
        \/ CallClose(c)
        \/ CallConvert(c)
        \/ CallConvertFile(c)
        \/ CallGetGeometryInfo(c)
        \/ InitConnected(c)
        \/ InitInstalled(c)
        \/ LoadDropped(c)
        \/ LoadCreated(c)
        \/ Exported(c)
        \/ QueryCounted(c)
        \/ QueryTyped(c)
        \/ QueryBounded(c)
        \/ CloseConnSettled(c)
        \/ CloseDbSettled(c)
        \/ Return(c)

Spec == Init /\ [][Next]_vars

NextOverlap ==
    \E c \in Callers :
        \/ CallConvert(c)
        \/ CallGetGeometryInfo(c)
        \/ InitConnected(c)
        \/ InitInstalled(c)
        \/ LoadDropped(c)
        \/ LoadCreated(c)
        \/ Exported(c)
        \/ QueryCounted(c)
        \/ QueryTyped(c)
        \/ QueryBounded(c)
        \/ Return(c)

SpecOverlap == InitOverlap /\ [][NextOverlap]_vars

\* the command-line process, started with each argument list
InitCli ==
    /\ GeoIdle
    /\ overlap = FALSE
    /\ argv \in ArgvSet
    /\ ExtIdle
    /\ DocIdle

NextCli ==
    \/ CliStart
    \/ InitConnected(Main)
    \/ InitInstalled(Main)
    \/ LoadDropped(Main)
    \/ LoadCreated(Main)
    \/ Exported(Main)
    \/ CliClose
    \/ CliCatch
    \/ CloseConnSettled(Main)
    \/ CloseDbSettled(Main)

SpecCli == InitCli /\ [][NextCli]_vars

\* the extensions getFormatFromExtension is applied to
ExtAlphabet == {".", "j", "s", "J", "x"}

RECURSIVE SeqsUpTo(_, _)
SeqsUpTo(S, n) ==
    IF n = 0
    THEN {<<>>}
    ELSE LET shorter == SeqsUpTo(S, n - 1)
         IN  shorter \cup {Append(q, ch) : q \in shorter, ch \in S}

toUpperCase(s) ==
    [i \in 1..Len(s) |->
        IF \E k \in DOMAIN LowerOf : LowerOf[k] = s[i]
        THEN CHOOSE k \in DOMAIN LowerOf : LowerOf[k] = s[i]
        ELSE s[i]]

Capitalized(s) == [i \in 1..Len(s) |-> IF i = 2 THEN toUpperCase(s)[i] ELSE s[i]]

KnownExtensions ==
    {ExtJson, ExtGeojson, ExtShp, ExtKml, ExtGml, ExtTopojson, ExtWkt, ExtCsv,
     ExtParquet, ExtGeoparquet}

ExtInputs ==
    KnownExtensions
        \cup {toUpperCase(e) : e \in KnownExtensions}
        \cup {Capitalized(e) : e \in KnownExtensions}
        \cup {<<".", "x", "y", "z">>, <<".", "a", "b", "c">>, <<".", "t", "x", "t">>}
        \cup SeqsUpTo(ExtAlphabet, MaxExtLen)

InitExt ==
    /\ GeoIdle
    /\ overlap = FALSE
    /\ argv = <<>>
    /\ DocIdle
    /\ extIn \in ExtInputs
    /\ extOut = NoExt

\* GeoConverter.getFormatFromExtension(extIn) returns or throws
GetFormatFromExtension ==
    /\ extOut = NoExt
    /\ extOut' = getFormatFromExtension(extIn)
    /\ UNCHANGED <<geoVars, extIn, docVars, textVars>>

NextExt == GetFormatFromExtension

SpecExt == InitExt /\ [][NextExt]_vars

\* the document converters, called one after the other
InitDoc ==
    /\ GeoIdle
    /\ overlap = FALSE
    /\ argv = <<>>
    /\ ExtIdle
    /\ DocIdle

NextDoc ==
    \/ CallConvertDocxToAsciidoc
    \/ DocxParsed
    \/ DocxMarkdown
    \/ DocxRewritten
    \/ DocxEnsureDir
    \/ DocxWrite
    \/ CallConvertAsciidocToDocx
    \/ AdocTemplate
    \/ AdocGenerated
    \/ AdocEnsureDir
    \/ AdocWrite

SpecDoc == InitDoc /\ [][NextDoc]_vars

\* the text rewriting of convertDocxToAsciidoc (docx2ascii.ts:71-74), applied to
\* each document and each set of options
HeadingTexts == {<<"T", "i", "t", "l", "e">>, <<"A", " ", "b", ".">>}
HeadingSpaces == {<<" ">>, <<" ", "\t">>}
HeadingLine(level, space, text) == repeat("#", level) \o space \o text
Headings ==
    {HeadingLine(level, space, text) :
        level \in 1..MaxHashes, space \in HeadingSpaces, text \in HeadingTexts}

\* a heading alone, after a paragraph, and before one
HeadingDocuments ==
    Headings
        \cup {<<"p", "\n">> \o h : h \in Headings}
        \cup {h \o <<"\n", "\n", "q", ".">> : h \in Headings}

\* the Markdown of the tests (docx2ascii.ts:288, 393-421), shortened, and
\* documents with code blocks
TurndownTestMarkdown == <<"#", " ", "T", "e", "s", "t", "\n", "\n", "A", " ", "p", "a", "r", "a",
    "g", "r", "a", "p", "h", ".", "\n", "\n", "*", " ", "I", "t", "e", "m", " ", "1">>
LeadingNewlineMarkdown == <<"\n", "#", " ", "H", "e", "a", "d", "i", "n", "g", " ", "1", "\n",
    "\n", "t", "e", "x", "t">>
\* fenced code blocks: ``` and the language, the code, ```
Fence == <<Backquote, Backquote, Backquote>>
FencedBlock(lang, code) == Fence \o lang \o <<"\n">> \o code \o Fence
CodeLangs == {<<>>, <<"j", "s">>, <<"s", "h">>}
BracesCode == <<"f", "(", ")", " ", "{", "\n", " ", " ", "g", "(", ")", ";", "\n", "}", "\n">>
AssignmentCode == <<"x", " ", "=", " ", "1", ";", "\n">>
CommentCode == <<"#", " ", "m", "a", "k", "e", "\n">>
BoldCode == <<"a", "*", "*", "b", "*", "*", "c", "\n">>
Codes == {BracesCode, AssignmentCode, CommentCode, BoldCode}
CodeDocuments == {FencedBlock(lang, code) \o <<"\n">> : lang \in CodeLangs, code \in Codes}
SevenHashes == <<"#", "#", "#", "#", "#", "#", "#", " ", "x">>
OtherMarkdowns ==
    {TurndownTestMarkdown, LeadingNewlineMarkdown, SevenHashes,
     <<"*", "*", "b", "*", "*", " ", "[", "t", "]", "(", "u", ")">>, <<">", " ", "q", "\n", "1",
         ".", " ", "o", "n", "e">>, <<>>}

Markdowns == HeadingDocuments \cup CodeDocuments \cup OtherMarkdowns

\* AsciiDoc texts postProcessAsciidoc is applied to directly (docx2ascii.ts:441-455)
PostProcessTestInput == <<"=", " ", "D", "o", "c", "u", "m", "e", "n", "t", " ", "T", "i", "t",
    "l", "e", "\n", "\n", "S", "o", "m", "e", " ", "c", "o", "n", "t", "e", "n", "t", "\n", "M",
    "o", "r", "e", " ", "c", "o", "n", "t", "e", "n", "t">>
Asciidocs ==
    {PostProcessTestInput, <<"H", "e", "l", "l", "o", ".", "\n", "W", "o", "r", "l", "d">>,
        <<"a", "\n", "b", "\n", "c">>, <<"o", "n", "e", "\n", "t", "w", "o">>, <<"-", " ", "x",
        "\n", "y">>, <<"t", "e", "x", "t", "\n", "\n", "=", "=", " ", "L", "a", "t", "e">>,
        <<"=", "x">>, <<"=">>, <<"\n", "=", " ", "T">>, <<>>}

TestAttributes == << <<<<"a", "u", "t", "h", "o", "r">>, <<"A">>>>, <<<<"e", "m", "a", "i",
    "l">>, <<"b", "@", "x", ".", "c", "o", "m">>>> >>
PriceAttributes == << <<<<"p", "r", "i", "c", "e">>, <<"$", "1">>>> >>

HeadingOptions == {Options(h, FALSE, <<>>, FALSE, FALSE) : h \in 0..MaxOffset}
AttributeOptions ==
    {Options(0, ia, at, toc, plb) :
        ia \in BOOLEAN, at \in {<<>>, TestAttributes, PriceAttributes},
        toc \in BOOLEAN, plb \in BOOLEAN}
TextOptions == HeadingOptions \cup AttributeOptions

InitText ==
    /\ GeoIdle
    /\ overlap = FALSE
    /\ argv = <<>>
    /\ ExtIdle
    /\ docCall = IdleDoc /\ docFs = InitialDocFs /\ nDocCalls = 0
    /\ mdOptions \in TextOptions
    /\ mdResult = <<>>
    /\ \/ mdPc = "markdown" /\ mdIn \in Markdowns /\ mdAsciidoc = <<>>
       \/ mdPc = "asciidoc" /\ mdIn = <<>> /\ mdAsciidoc \in Asciidocs

\* let asciidoc = this.markdownToAsciidoc(markdown, options)
MarkdownToAsciidoc ==
    /\ mdPc = "markdown"
    /\ mdAsciidoc' = markdownToAsciidoc(mdIn, mdOptions)
    /\ mdPc' = "asciidoc"
    /\ UNCHANGED <<geoVars, extVars, docVars, mdIn, mdOptions, mdResult>>

\* asciidoc = this.postProcessAsciidoc(asciidoc, options)
PostProcessAsciidoc ==
    /\ mdPc = "asciidoc"
    /\ mdResult' = postProcessAsciidoc(mdAsciidoc, mdOptions)
    /\ mdPc' = "done"
    /\ UNCHANGED <<geoVars, extVars, docVars, mdIn, mdOptions, mdAsciidoc>>

NextText == MarkdownToAsciidoc \/ PostProcessAsciidoc

SpecText == InitText /\ [][NextText]_vars


----------------------------------------------------------------------------
(* Claims about the GeoConverter *)

ConvertPrefix == "Conversion failed: "

\* the statements that load, export or query temp_geo_data
IsLoadStmt(x) == x.stmt \in {"drop", "create", "export", "count", "types", "bounds"}

\* the fixed extension table, as pairs
ExtensionTable ==
    { <<ExtJson, "geojson">>, <<ExtGeojson, "geojson">>, <<ExtShp, "shapefile">>,
      <<ExtKml, "kml">>, <<ExtGml, "gml">>, <<ExtTopojson, "topojson">>,
      <<ExtWkt, "wkt">>, <<ExtCsv, "csv">>, <<ExtParquet, "geoparquet">>,
      <<ExtGeoparquet, "geoparquet">> }

InTable(ext) == \E e \in ExtensionTable : e[1] = ext

\* C1: a convert call given a nonexistent input path, or an input or output
\* format that is not one of the eight formats, rejects with a message
\* starting 'Conversion failed: ', and has issued no export statement.
C1_BadArgumentsRejectWrapped ==
    \A c \in Callers :
        ( /\ call[c].op = "convert"
          /\ call[c].pc = "done"
          /\ \/ fs[call[c].inputPath].kind = "none"
             \/ call[c].inputFormat \notin GeoFormat
             \/ call[c].outputFormat \notin GeoFormat )
        => /\ call[c].settled = "rejected"
           /\ Head(call[c].error) = ConvertPrefix
           /\ \A i \in DOMAIN call[c].log : call[c].log[i].stmt # "export"

\* C2: every rejection of a convert call, whatever failed (the lazy
\* initialization, the drop, the load, the export), carries the message
\* 'Conversion failed: ' followed by the cause's message.
C2_EveryFailureWrapped ==
    \A c \in Callers :
        (call[c].op = "convert" /\ call[c].settled = "rejected")
        => /\ Head(call[c].error) = ConvertPrefix
           /\ Tail(call[c].error) # Ok

\* C3: a convert or getGeometryInfo call made when no connection exists has
\* run init (database created, connection opened, spatial extension loaded)
\* before its first load statement; a call made when a connection exists runs
\* no init and issues every statement on that connection.
C3_InitOnDemand ==
    \A c \in Callers :
        call[c].op \in {"convert", "convertFile", "getGeometryInfo"} =>
            LET log == call[c].log
                loads == {i \in DOMAIN log : IsLoadStmt(log[i])}
            IN  /\ (call[c].connAtEntry = 0 /\ loads # {}) =>
                      /\ call[c].ranInit
                      /\ engine[call[c].initDb].created
                      /\ \A i \in loads :
                            /\ \E j \in 1..(i - 1) : log[j].stmt = "install"
                            /\ log[i].conn = call[c].initDb
                            /\ log[i].usable
                            /\ log[i].spatial
                /\ call[c].connAtEntry # 0 =>
                      /\ ~call[c].ranInit
                      /\ \A i \in DOMAIN log :
                            log[i].stmt # "install" /\ log[i].conn = call[c].connAtEntry

\* a later call, made with the connection of an earlier one, has converted
C3_Witness ==
    \E c \in Callers :
        /\ call[c].op = "convert"
        /\ call[c].settled = "resolved"
        /\ call[c].connAtEntry # 0
        /\ nCalls >= 2

\* C4: with calls that do not overlap, every load is preceded by the drop, a
\* conversion's output file holds the rows of its own input file, a summary
\* is that of its own input file, and after a call whose load failed the
\* connection shows no temp_geo_data of an earlier call.
C4_FreshTablePerCall ==
    \A c \in Callers :
        LET r == call[c] IN
        /\ \A i \in DOMAIN r.log :
              r.log[i].stmt = "create" => (i > 1 /\ r.log[i - 1].stmt = "drop")
        /\ (r.op \in {"convert", "convertFile"} /\ r.settled = "resolved") =>
              fs[r.outputPath].data = fs[r.inputPath].data
        /\ (r.op = "getGeometryInfo" /\ r.settled = "resolved") =>
              /\ r.info.count = CountOf(fs[r.inputPath].data)
              /\ r.info.types = TypesOf(fs[r.inputPath].data)
              /\ r.info.bounds = BoundsOf(fs[r.inputPath].data)
        /\ (r.pc = "done" /\ r.failedAt = "load" /\ Usable(engine[conn])) =>
              engine[conn].geo = "none"

\* the second conversion of a run has exported its own input, b.wkt, and the
\* first one's output, of a.geojson, is still there
C4_Witness ==
    \E c \in Callers :
        /\ call[c].op = "convert"
        /\ call[c].settled = "resolved"
        /\ call[c].inputPath = FileB
        /\ fs[call[c].outputPath].data = "B"
        /\ fs[OutWkt].data = "A"

\* C5: overlapping calls share the one table: an export writes, and a query
\* returns, whatever temp_geo_data of the shared connection holds when it
\* runs, whichever call loaded it; so a call can export another call's input.
C5_ExportReadsSharedTable ==
    [][\A c \in Callers :
        /\ ( /\ call[c].pc # "await_export"
             /\ call'[c].pc = "await_export"
             /\ call'[c].pend = Ok )
           => fs'[call'[c].outputPath].data = engine[conn].geo
        /\ ( /\ call[c].pc # "await_count"
             /\ call'[c].pc = "await_count"
             /\ call'[c].pend = Ok )
           => call'[c].info.count = CountOf(engine[conn].geo)]_vars

\* a conversion of a.geojson has resolved with the rows of b.wkt, the other
\* caller's input, in its output file
C5_Witness ==
    \E c \in Callers, d \in Callers :
        /\ c # d
        /\ call[c].op = "convert"
        /\ call[c].settled = "resolved"
        /\ call[c].inputPath = FileA
        /\ call[d].inputPath = FileB
        /\ fs[call[c].outputPath].data = "B"

\* C7: convertFile takes the input format from the input file's extension
\* and, without an outputFormat, the output format from the output file's
\* extension; when an extension it needs is not in the table the call has
\* rejected, with no format put in its place, no init and no statement.
C7_InferenceOrRejection ==
    \A c \in Callers :
        call[c].op = "convertFile" =>
            LET r == call[c]
                unknownIn == ~InTable(extname(r.inputPath))
                unknownOut == Falsy(r.argOutputFormat) /\ ~InTable(extname(r.outputPath))
            IN  /\ (unknownIn \/ unknownOut) =>
                      /\ r.pc = "done"
                      /\ r.settled = "rejected"
                      /\ Head(r.error) = "Unsupported file extension: "
                      /\ ~r.ranInit
                      /\ r.log = <<>>
                      /\ unknownIn => r.inputFormat \notin GeoFormat
                      /\ Falsy(r.argOutputFormat) => r.outputFormat \notin GeoFormat
                /\ ~(unknownIn \/ unknownOut) =>
                      /\ <<extname(r.inputPath), r.inputFormat>> \in ExtensionTable
                      /\ Falsy(r.argOutputFormat) =>
                            <<extname(r.outputPath), r.outputFormat>> \in ExtensionTable
                      /\ ~Falsy(r.argOutputFormat) => r.outputFormat = r.argOutputFormat

\* convertFile('nonexistent.xyz', 'output.abc') has rejected and the engine
\* was never initialized
C7_Witness ==
    \E c \in Callers :
        /\ call[c].op = "convertFile"
        /\ call[c].inputPath = NonexistentXyz
        /\ call[c].settled = "rejected"
        /\ db = 0
        /\ conn = 0

\* C8: the command-line process ends with exit code 1, the engine not
\* initialized, when given fewer than 2 or more than 3 arguments; with exit
\* code 1 when init or the conversion raised an error; with exit code 0 when
\* the conversion succeeded; and with 2 arguments the output format is the
\* one of the output file's extension.
C8_ExitCodes ==
    LET r == call[Main]
        n == Len(argv)
    IN  exitCode # -1 =>
            /\ (n < 2 \/ n > 3) => (exitCode = 1 /\ db = 0)
            /\ (n \in {2, 3} /\ r.failedAt \in {"init", "infer", "load", "export"}) =>
                  exitCode = 1
            /\ (n \in {2, 3} /\ r.failedAt \notin {"init", "infer", "load", "export"}) =>
                  exitCode = 0
            /\ (n = 2 /\ r.outputFormat \in GeoFormat) =>
                  <<extname(r.outputPath), r.outputFormat>> \in ExtensionTable

----------------------------------------------------------------------------
(* Claims about getFormatFromExtension *)

\* getFormatFromExtension has returned or thrown
ExtApplied == extOut # NoExt

\* a and b are the same up to the case of their letters, b in lower case
SameIgnoringCase(a, b) ==
    /\ Len(a) = Len(b)
    /\ \A i \in 1..Len(a) :
          \/ a[i] = b[i]
          \/ a[i] \in DOMAIN LowerOf /\ LowerOf[a[i]] = b[i]

\* C6, as stated: getFormatFromExtension returns geojson for '.json' and
\* '.geojson', shapefile for '.shp', geoparquet for '.parquet' and
\* '.geoparquet', and raises an unsupported-format error for any other
\* extension.
C6_FiveExtensionsOnly ==
    ExtApplied =>
        CASE extIn \in {ExtJson, ExtGeojson} -> extOut = [format |-> "geojson", error |-> Ok]
          [] extIn = ExtShp -> extOut = [format |-> "shapefile", error |-> Ok]
          [] extIn \in {ExtParquet, ExtGeoparquet} ->
                extOut = [format |-> "geoparquet", error |-> Ok]
          [] OTHER -> extOut.format = "none" /\ extOut.error # Ok

\* C6, amended: getFormatFromExtension compares the extension without regard
\* to letter case against the table of ten extensions ('.json' and '.geojson'
\* geojson, '.shp' shapefile, '.kml' kml, '.gml' gml, '.topojson' topojson,
\* '.wkt' wkt, '.csv' csv, '.parquet' and '.geoparquet' geoparquet) and
\* returns the format of the matching row; for an extension matching no row
\* it raises 'Unsupported file extension: ' followed by the extension as given.
C6_TenExtensionsAnyCase ==
    ExtApplied =>
        /\ \A e \in ExtensionTable :
              SameIgnoringCase(extIn, e[1]) => extOut = [format |-> e[2], error |-> Ok]
        /\ (\A e \in ExtensionTable : ~SameIgnoringCase(extIn, e[1]))
              => extOut = [format |-> "none",
                           error  |-> <<"Unsupported file extension: ">> \o extIn]

\* '.KML' was given and kml came back
C6_Witness ==
    /\ extIn = <<".", "K", "M", "L">>
    /\ extOut = [format |-> "kml", error |-> Ok]

----------------------------------------------------------------------------
(* Claims about the document converters *)

\* name is among the calls made by the conversion in progress
Invoked(name) == \E i \in DOMAIN docCall.invoked : docCall.invoked[i] = name

\* C9: a convertDocxToAsciidoc call whose docxPath does not exist rejects with
\* a message containing 'Input DOCX file not found', and in that call the DOCX
\* parser, the HTML-to-Markdown converter and the file write are never
\* invoked.
C9_MissingInputBeforeAnyStage ==
    ( /\ docCall.op = "convertDocxToAsciidoc"
      /\ ~fileExists(docFs, docCall.docxPath) )
    => /\ docCall.pc = "done"
       /\ docCall.settled = "rejected"
       /\ \E i \in DOMAIN docCall.error : docCall.error[i] = "Input DOCX file not found: "
       /\ ~Invoked("mammoth.convertToHtml")
       /\ ~Invoked("turndown")
       /\ ~Invoked("mkdirSync")
       /\ ~Invoked("writeFileSync")

\* the second conversion of a run was given '/nonexistent.docx' and an output
\* path, and was rejected
C9_Witness ==
    /\ nDocCalls = 2
    /\ docCall.op = "convertDocxToAsciidoc"
    /\ docCall.docxPath = NonexistentDocx
    /\ docCall.outputPath = TestAdoc
    /\ docCall.settled = "rejected"

DocStages ==
    [convertDocxToAsciidoc |-> {"validate", "parse", "markdown", "mkdir", "write"},
     convertAsciidocToDocx |-> {"render", "template", "generate", "mkdir", "write"}]

DocPrefix ==
    [convertDocxToAsciidoc |-> DocxPrefix, convertAsciidocToDocx |-> AdocPrefix]

\* C10: whichever stage of convertDocxToAsciidoc or convertAsciidocToDocx
\* throws, the call rejects with the fixed prefix of its direction followed by
\* the message the stage threw; and a call rejects only when a stage threw.
C10_StageFailuresWrapped ==
    /\ docCall.failedAt # "none"
          => /\ docCall.failedAt \in DocStages[docCall.op]
             /\ docCall.cause # Ok
             /\ docCall.settled = "rejected"
             /\ docCall.error = <<DocPrefix[docCall.op]>> \o docCall.cause
    /\ docCall.settled = "rejected" => docCall.failedAt # "none"

\* the template read of convertAsciidocToDocx threw and the call was rejected
C10_Witness ==
    /\ docCall.op = "convertAsciidocToDocx"
    /\ docCall.failedAt = "template"
    /\ docCall.cause = ReadError
    /\ docCall.settled = "rejected"

----------------------------------------------------------------------------
(* Claims about what the document converters write *)

\* how many times name is among the calls made by the conversion in progress
TimesInvoked(name) ==
    Cardinality({i \in DOMAIN docCall.invoked : docCall.invoked[i] = name})

\* the position of the first call of name, 0 when it was not called
FirstInvoked(name) ==
    IF Invoked(name)
    THEN CHOOSE i \in DOMAIN docCall.invoked :
            /\ docCall.invoked[i] = name
            /\ \A j \in 1..(i - 1) : docCall.invoked[j] # name
    ELSE 0

\* the template buffer convertAsciidocToDocx generates the document with
TemplateGiven ==
    IF docCall.templatePath # NoDocPath /\ fileExists(docFs, docCall.templatePath)
    THEN docFs.files[docCall.templatePath]
    ELSE NoContent

\* C11: a successful convertAsciidocToDocx call has written the generated
\* DOCX buffer to outputPath exactly once, as its last stage, and resolves to
\* outputPath; the parent directory of outputPath exists when the write is
\* made, created before it when it was missing; and when rendering, template
\* loading or document generation failed, no write was attempted.
C11_WriteOnceLastStage ==
    docCall.op = "convertAsciidocToDocx" =>
        /\ docCall.settled = "fulfilled" =>
              /\ docCall.result = docCall.outputPath
              /\ TimesInvoked("writeFileSync") = 1
              /\ docCall.invoked[Len(docCall.invoked)] = "writeFileSync"
              /\ docFs.files[docCall.outputPath] =
                    HTMLtoDOCX(asciidoctorHtml(docCall.asciidocContent), TemplateGiven)
              /\ Invoked("mkdirSync") =>
                    FirstInvoked("mkdirSync") < FirstInvoked("writeFileSync")
        /\ (docCall.pc = "write" \/ Invoked("writeFileSync")) =>
              dirExists(docFs, dirname(docCall.outputPath))
        /\ docCall.failedAt \in {"render", "template", "generate"} =>
              /\ ~Invoked("writeFileSync")
              /\ ~Invoked("mkdirSync")

\* a conversion to a path in the missing directory /test/new, on a template,
\* has resolved after creating the directory
C11_Witness ==
    /\ docCall.op = "convertAsciidocToDocx"
    /\ docCall.settled = "fulfilled"
    /\ docCall.outputPath = NewDirDocx
    /\ docCall.templatePath = TemplateDocx
    /\ Invoked("mkdirSync")
    /\ "/test/new" \in docFs.dirs

\* whether `line` is a whole line of t, from position i
LineAt(t, i, line) ==
    /\ AtLineStart(t, i)
    /\ StartsAt(t, i, line)
    /\ i + Len(line) > Len(t) \/ t[i + Len(line)] \in LineTerminator

\* the positions at which `line` is a whole line of t
LinesOf(t, line) == {i \in 1..Len(t) : LineAt(t, i, line)}

\* C12: a Markdown heading of level 1 to 6 ('#' characters, whitespace, text),
\* rewritten under a headingLevel offset of 0 to 5, becomes a line of exactly
\* level+offset '=' characters, one space and the original heading text; the
\* lines around it stay as they were and the line is in the converter's output.
C12_HeadingLevelPlusOffset ==
    \A level \in 1..MaxHashes, space \in HeadingSpaces, text \in HeadingTexts :
        LET heading == HeadingLine(level, space, text)
            rewritten == repeat("=", level + mdOptions.headingLevel) \o <<" ">> \o text
        IN  /\ mdPc \in {"asciidoc", "done"} =>
                /\ mdIn = heading => mdAsciidoc = rewritten
                /\ mdIn = <<"p", "\n">> \o heading => mdAsciidoc = <<"p", "\n">> \o rewritten
                /\ mdIn = heading \o <<"\n", "\n", "q",
                    ".">> => mdAsciidoc = rewritten \o <<"\n", "\n", "q", ".">>
            /\ mdPc = "done" /\ mdOptions \in HeadingOptions
                    /\ (\E i \in 1..Len(mdIn) : LineAt(mdIn, i, heading)) =>
                LinesOf(mdResult, rewritten) # {}

\* a level 6 heading rewritten under offset 5
C12_Witness ==
    /\ mdPc = "done"
    /\ mdIn = HeadingLine(MaxHashes, <<" ", "\t">>, <<"A", " ", "b", ".">>)
    /\ mdOptions.headingLevel = 5
    /\ mdAsciidoc = <<"=", "=", "=", "=", "=", "=", "=", "=", "=", "=", "=", " ", "A", " ", "b",
        ".">>
    /\ mdResult = mdAsciidoc

\* whether pat occurs in t
Contains(t, pat) == \E i \in 1..Len(t) : StartsAt(t, i, pat)

\* the delimited block a fenced block is to become
DelimitedBlock(lang, code) ==
    (IF lang = <<>> THEN <<>> ELSE <<"[", "s", "o", "u", "r", "c", "e", ",">> \o lang \o <<"]",
        "\n">>)
        \o <<"-", "-", "-", "-", "\n">> \o code \o <<"-", "-", "-", "-", "\n">>

\* C13: a fenced code block with a language tag becomes a '[source,<lang>]'
\* line and a '----' delimited block, an untagged one a plain '----' delimited
\* block, and the code between the fences is in the converter's output
\* verbatim, whatever the other substitutions and the post-processing do.
C13_CodeBlocksVerbatim ==
    \A lang \in CodeLangs, code \in Codes :
        mdPc = "done" /\ mdIn = FencedBlock(lang, code) \o <<"\n">> =>
            Contains(mdResult, DelimitedBlock(lang, code))

\* a block whose code the other substitutions leave alone comes out verbatim
C13_PlainCodeKept ==
    /\ mdPc = "done"
    /\ mdIn = FencedBlock(<<"j", "s">>, AssignmentCode) \o <<"\n">>
    /\ Contains(mdResult, DelimitedBlock(<<"j", "s">>, AssignmentCode))

\* the line ':<key>: <value>' of a custom attribute
AttributeLine(pair) == <<":">> \o pair[1] \o <<":", " ">> \o pair[2]

\* the positions of the heading lines of t
HeadingLinesOf(t) == {i \in 1..Len(t) : titleMatch(t, i).len > 0}

\* C14: with includeAttributes true and a custom attribute map, the converter's
\* output has, for every key/value pair of the map, the literal line
\* ':<key>: <value>' on a line of its own, after the first heading line.
C14_AttributeLinesAfterHeading ==
    mdPc = "done" /\ mdOptions.includeAttributes =>
        \A k \in 1..Len(mdOptions.attributes) :
            \E i \in LinesOf(mdResult, AttributeLine(mdOptions.attributes[k])) :
                \E h \in HeadingLinesOf(mdResult) : h < i

\* with preserveLineBreaks set, the attributes of the test are lines of their own
C14_LinesWhenBreaksPreserved ==
    /\ mdPc = "done"
    /\ mdIn = TurndownTestMarkdown
    /\ mdOptions = Options(0, TRUE, TestAttributes, FALSE, TRUE)
    /\ LinesOf(mdResult, <<":", "a", "u", "t", "h", "o", "r", ":", " ", "A">>) # {}
    /\ LinesOf(mdResult, <<":", "e", "m", "a", "i", "l", ":", " ", "b", "@", "x", ".", "c", "o",
        "m">>) # {}

\* where the line that holds position j of t starts
LineStartOf(t, j) == CHOOSE i \in 1..j : AtLineStart(t, i) /\ \A k \in i..j - 1 : t[k] # "\n"

\* whether a plain-text line of t starts at i: a line that is not blank and
\* does not start with '=', '-', '*' or '.'
PlainLineAt(t, i) ==
    /\ i \in 1..Len(t)
    /\ AtLineStart(t, i)
    /\ t[i] \notin {"=", "-", "*", ".", "\n"}
    /\ \E k \in i..Len(t) : t[k] \notin Space /\ \A j \in i..k : t[j] # "\n"

\* the line breaks of t between two consecutive plain-text lines
PlainBreaksOf(t) ==
    {j \in 2..Len(t) - 1 :
        /\ t[j] = "\n"
        /\ t[j - 1] # "\n"
        /\ PlainLineAt(t, LineStartOf(t, j - 1))
        /\ PlainLineAt(t, j + 1)}

NewlinesOf(t) == {j \in 1..Len(t) : t[j] = "\n"}

\* C15: with preserveLineBreaks false, every two consecutive plain-text lines
\* are joined with a single space in the output of postProcessAsciidoc (no line
\* break is left between two such lines, and the rest of the text is as it
\* was); with preserveLineBreaks true no newline of the input is removed.
C15_PlainLinesJoined ==
    mdPc = "done" /\ ~mdOptions.includeAttributes =>
        LET given == addTitle(mdAsciidoc)
        IN  IF mdOptions.preserveLineBreaks
            THEN mdResult = given
            ELSE /\ PlainBreaksOf(mdResult) = {}
                 /\ Len(mdResult) = Len(given)
                 /\ \A j \in 1..Len(given) :
                        \/ mdResult[j] = given[j]
                        \/ j \in PlainBreaksOf(given) /\ mdResult[j] = " "

\* the two content lines of the test are joined, the only change made
C15_TestLinesJoined ==
    /\ mdPc = "done"
    /\ mdAsciidoc = PostProcessTestInput
    /\ ~mdOptions.preserveLineBreaks /\ ~mdOptions.includeAttributes
    /\ mdResult = <<"=", " ", "D", "o", "c", "u", "m", "e", "n", "t", " ", "T", "i", "t", "l",
        "e", "\n", "\n", "S", "o", "m", "e", " ", "c", "o", "n", "t", "e", "n", "t", " ", "M",
        "o", "r", "e", " ", "c", "o", "n", "t", "e", "n", "t">>

\* with preserveLineBreaks true the text is returned with every newline
C15_BreaksPreserved ==
    mdPc = "done" /\ mdOptions.preserveLineBreaks /\ ~mdOptions.includeAttributes =>
        mdResult = addTitle(mdAsciidoc)

\* C19: postProcessAsciidoc puts the default title line '= Document Title' and a
\* blank line at the top of the document if and only if no title heading is in
\* the document; a document that contains a heading gets none; and the output
\* always begins with '='.
C19_TitleIffNoHeading ==
    mdPc = "done" =>
        /\ mdResult # <<>> /\ mdResult[1] = "="
        /\ mdOptions.preserveLineBreaks /\ ~mdOptions.includeAttributes =>
              /\ HeadingLinesOf(mdAsciidoc) = {} <=> mdResult = DefaultTitle \o mdAsciidoc
              /\ HeadingLinesOf(mdAsciidoc) # {} => mdResult = mdAsciidoc

\* whatever the text and the options, the output begins with '='
C19_BeginsWithEquals == mdPc = "done" => mdResult # <<>> /\ mdResult[1] = "="

\* a text without any heading gets the default title
C19_TitleInjected ==
    /\ mdPc = "done"
    /\ mdAsciidoc = <<"o", "n", "e", "\n", "t", "w", "o">>
    /\ mdResult = <<"=", " ", "D", "o", "c", "u", "m", "e", "n", "t", " ", "T", "i", "t", "l",
        "e", "\n", "\n", "o", "n", "e", " ", "t", "w", "o">>

\* the Markdown of the test, which starts with a line break before its first
\* heading, gets the default title above its own
C19_TitleAboveHeading ==
    /\ mdPc = "done"
    /\ mdIn = LeadingNewlineMarkdown
    /\ HeadingLinesOf(mdAsciidoc) # {}
    /\ StartsAt(mdResult, 1, DefaultTitle)

\* the statements call c has issued, in order
StmtsOf(c) == [k \in 1..Len(call[c].log) |-> call[c].log[k].stmt]

\* the rows of the file call c was given, and those with a geometry
GivenRows(c) == Rows(InitialFs[call[c].inputPath].data)
GivenGeometries(c) == {r \in GivenRows(c) : r.gtype # "null"}

\* C16: a getGeometryInfo that resolves has loaded the file into the table and
\* then run the three queries; count is the number of rows loaded, types the
\* distinct types of the non-null geometries, bounds [minX, minY, maxX, maxY]
\* over their envelopes (count 2 and [0,0,1,1] for the Point and LineString of
\* the test); with no non-null geometry the call resolves all the same, with
\* four nulls as bounds.
C16_GeometrySummary ==
    \A c \in Callers :
        call[c].op = "getGeometryInfo" /\ call[c].settled = "resolved" =>
            LET n == Len(call[c].log)
                G == GivenGeometries(c)
                info == call[c].info
            IN  /\ n >= 5
                /\ SubSeq(StmtsOf(c), n - 4, n) = <<"drop", "create", "count", "types", "bounds">>
                /\ info.count = Cardinality(GivenRows(c))
                /\ info.types = {r.gtype : r \in G}
                /\ Len(info.bounds) = 4
                /\ IF G = {}
                   THEN info.bounds = << <<>>, <<>>, <<>>, <<>> >>
                   ELSE /\ \A k \in 1..4 : Len(info.bounds[k]) = 1
                        /\ \A r \in G :
                              /\ info.bounds[1][1] <= r.box[1]
                              /\ info.bounds[2][1] <= r.box[2]
                              /\ info.bounds[3][1] >= r.box[3]
                              /\ info.bounds[4][1] >= r.box[4]
                        /\ \A k \in 1..4 : \E r \in G : info.bounds[k][1] = r.box[k]
                /\ call[c].inputPath = FileA =>
                      /\ info.count = 2
                      /\ info.types = {"POINT", "LINESTRING"}
                      /\ info.bounds = << <<0>>, <<0>>, <<1>>, <<1>> >>

\* the summary of the file whose only feature has no geometry, asked after the
\* summary of another file
C16_Witness ==
    \E c \in Callers :
        /\ call[c].op = "getGeometryInfo"
        /\ call[c].settled = "resolved"
        /\ call[c].inputPath = FileN
        /\ call[c].info = [count |-> 1, types |-> {}, bounds |-> << <<>>, <<>>, <<>>, <<>> >>]
        /\ nCalls >= 2

\* the summary of the test's file
C16_TestSummary ==
    \E c \in Callers :
        /\ call[c].op = "getGeometryInfo"
        /\ call[c].settled = "resolved"
        /\ call[c].inputPath = FileA
        /\ call[c].info.count = 2

\* C17: convertDocxToAsciidoc writes a file if and only if an outputPath is
\* given: with one it makes exactly one write, to outputPath, of exactly the
\* string it returns, after creating the output directory when missing;
\* without one it writes nothing; and the write is the last stage, so nothing
\* is written when an earlier stage fails.
C17_WriteIffOutputPath ==
    docCall.op = "convertDocxToAsciidoc" =>
        /\ TimesInvoked("writeFileSync") <= 1
        /\ docCall.settled = "fulfilled" =>
              IF docCall.outputPath # NoDocPath
              THEN /\ TimesInvoked("writeFileSync") = 1
                   /\ docCall.invoked[Len(docCall.invoked)] = "writeFileSync"
                   /\ docFs.files[docCall.outputPath] = docCall.result
                   /\ dirExists(docFs, dirname(docCall.outputPath))
                   /\ Invoked("mkdirSync") =>
                         FirstInvoked("mkdirSync") < FirstInvoked("writeFileSync")
              ELSE /\ ~Invoked("writeFileSync")
                   /\ ~Invoked("mkdirSync")
        /\ docCall.settled = "fulfilled" => docCall.result = docCall.value
        /\ docCall.outputPath = NoDocPath =>
              /\ ~Invoked("writeFileSync")
              /\ nDocCalls = 1 => docFs = InitialDocFs
        /\ (docCall.pc = "write" \/ Invoked("writeFileSync")) =>
              dirExists(docFs, dirname(docCall.outputPath))
        /\ docCall.failedAt \in {"validate", "parse", "markdown", "mkdir"} =>
              /\ ~Invoked("writeFileSync")
              /\ nDocCalls = 1 => docFs.files = InitialDocFs.files

\* a conversion to a path in the missing directory /test/new has resolved with
\* the text it wrote, after one without outputPath
C17_Witness ==
    /\ docCall.op = "convertDocxToAsciidoc"
    /\ docCall.settled = "fulfilled"
    /\ docCall.outputPath = NewDirAdoc
    /\ Invoked("mkdirSync")
    /\ docFs.files[NewDirAdoc] = docCall.result
    /\ StartsAt(docCall.result, 1, DefaultTitle)
    /\ nDocCalls = 2

\* no call has a statement under way
BetweenCalls == \A c \in Callers : call[c].pc \in {"idle", "done"}

\* C18: the staging tables do not outlive the operation that made them: once
\* a WKT load or a CSV export has finished, whether it succeeded or failed,
\* temp_wkt_raw and temp_geo_csv are gone, so between calls temp_geo_data is
\* the only temporary table a connection can hold, and no WKT load fails on a
\* temp_wkt_raw left behind.
C18_StagingTablesDropped ==
    /\ BetweenCalls => \A k \in DbIds : ~engine[k].wktRaw /\ ~engine[k].geoCsv
    /\ \A c \in Callers : call[c].pend # ExistsError("temp_wkt_raw")

\* a WKT load of a good file fails on the table an earlier, failed WKT load left
C18_LaterLoadBlocked ==
    \E c \in Callers :
        /\ call[c].op = "convert"
        /\ call[c].inputPath = FileB
        /\ call[c].settled = "rejected"
        /\ call[c].error = Wrapped(ConvertPrefix, ExistsError("temp_wkt_raw"))

\* a failed CSV export has left its staging table
C18_CsvStagingLeft ==
    BetweenCalls /\ \E k \in DbIds : engine[k].geoCsv

\* C20: in any sequence of init, convert, getGeometryInfo and close calls no
\* load, export or query statement is issued on a connection that close() has
\* closed: after close() the connection counts as absent, so a following
\* convert or getGeometryInfo initializes a new connection first.
C20_NoStatementAfterClose ==
    \A c \in Callers :
        /\ \A k \in DOMAIN call[c].log : IsLoadStmt(call[c].log[k]) => call[c].log[k].usable
        /\ call[c].op = "close" /\ call[c].settled = "resolved" => conn = 0

\* a convert called after close() has run its DROP on the closed connection
\* and rejected, without initializing anything
C20_ConvertOnClosedConnection ==
    \E c \in Callers :
        /\ call[c].op = "convert"
        /\ call[c].settled = "rejected"
        /\ ~call[c].ranInit
        /\ call[c].connAtEntry # 0
        /\ Len(call[c].log) >= 1
        /\ call[c].log[1].stmt = "drop"
        /\ ~call[c].log[1].usable
        /\ ~engine[call[c].log[1].conn].connOpen
        /\ call[c].error = Wrapped(ConvertPrefix, ClosedError)

============================================================================
